---- MODULE Spec2Model ----
(***************************************************************************)
(* Model of the titanbay-service core: the circuit breaker and the TTL     *)
(* cache of app/core, and the fund / investment services that use them     *)
(* through the repositories.                                               *)
(*                                                                         *)
(* Time is time.monotonic() in whole ticks.  A coroutine runs without      *)
(* interruption between two awaits (asyncio), so every action is one such  *)
(* segment; the awaited operation itself completes in a later action.      *)
(***************************************************************************)
EXTENDS Integers, Naturals, Sequences, FiniteSets, TLC

VARIABLES
    now,        \* time.monotonic()
    breaker,    \* the CircuitBreaker instance (db_circuit_breaker)
    callers,    \* SpecBreaker: the coroutines inside CircuitBreaker.call
    invoked,    \* SpecBreaker: number of times the wrapped func was awaited
    run,        \* history: classified failures since CLOSED with failure_count 0
    cache,      \* the TTLCache instance (cache)
    lastSet,    \* history: per key, the last set and whether it still stands
    setLog,     \* history: the keys set since the cache was empty, all distinct
    gets,       \* history: number of get calls made on the cache
    retry,      \* SpecRetry: the coroutine inside retry_with_backoff's wrapper
    funds,      \* the funds table: id -> row, or Absent
    investors,  \* the investors table: the ids of its rows
    investments,\* the investments table: its rows in insertion order
    reqs,       \* SpecService: the requests being served, one coroutine each
    started,    \* SpecService: number of requests begun so far
    lastOp      \* history: the operation of the last step and what it returned

vars == <<now, breaker, callers, invoked, run, cache, lastSet, setLog, gets,
         retry, funds, investors, investments, reqs, started, lastOp>>

breakerVars == <<breaker, callers, invoked, run>>
cacheVars == <<cache, lastSet, setLog, gets>>
retryVars == <<retry>>
svcVars == <<funds, investors, investments, reqs, started>>

\* ------------------------------------------------------------------ bounds
MaxTime == 5            \* the clock stops at MaxTime
MaxCalls == 6           \* SpecBreaker: calls admitted in one behaviour
NCallers == 3           \* SpecBreaker: concurrent callers of the breaker
FailureThreshold == 2   \* failure_threshold of the breaker under test
RecoveryTimeout == 2    \* recovery_timeout of the breaker under test
CacheTTL == 1           \* ttl of the cache under test
CacheMaxSize == 2       \* max_size of the cache under test
MaxGets == 2            \* SpecCache: get calls in one behaviour
MaxCacheTime == 2       \* SpecCache: the clock stops at MaxCacheTime
MaxRequests == 2        \* SpecService: requests begun in one behaviour
MaxRetries == 3         \* SpecRetry: max_retries is drawn from 0..MaxRetries

Callers == 1..NCallers

Max(a, b) == IF a >= b THEN a ELSE b

\* ---------------------------------------------------------- circuit breaker
CLOSED == "closed"
OPEN == "open"
HALF_OPEN == "half_open"

CircuitBreaker_init ==
    [state |-> CLOSED, failure_count |-> 0, last_failure_time |-> 0,
     success_count |-> 0]

\* variant: the recovery test with > in place of >=
CircuitBreaker_state_gt(cb, t) ==
    IF cb.state = OPEN /\ t - cb.last_failure_time > RecoveryTimeout
    THEN [cb EXCEPT !.state = HALF_OPEN]
    ELSE cb

\* The state property: the breaker after the read; the value read is its state.
CircuitBreaker_state(cb, t) ==
    IF cb.state = OPEN /\ t - cb.last_failure_time >= RecoveryTimeout
    THEN [cb EXCEPT !.state = HALF_OPEN]
    ELSE cb

\* variant: the counters are reset but the state is left as it is
record_success_keep_state(cb) ==
    [cb EXCEPT !.failure_count = 0,
               !.success_count = cb.success_count + 1]

\* variant: a success closes the breaker but keeps failure_count
record_success_keep_count(cb) ==
    [cb EXCEPT !.success_count = cb.success_count + 1,
               !.state = CLOSED]

record_success(cb) ==
    [cb EXCEPT !.failure_count = 0,
               !.success_count = cb.success_count + 1,
               !.state = CLOSED]

\* variant: the threshold test with > in place of >=
record_failure_gt(cb, t) ==
    LET n == cb.failure_count + 1 IN
    [cb EXCEPT !.failure_count = n,
               !.last_failure_time = t,
               !.state = IF n > FailureThreshold THEN OPEN ELSE cb.state]

record_failure(cb, t) ==
    LET n == cb.failure_count + 1 IN
    [cb EXCEPT !.failure_count = n,
               !.last_failure_time = t,
               !.state = IF n >= FailureThreshold THEN OPEN ELSE cb.state]

\* variant: retry_after is the whole recovery_timeout
CircuitBreaker_admit_full_timeout(cb, t) ==
    LET cb2 == CircuitBreaker_state(cb, t) IN
    IF cb2.state = OPEN
    THEN [cb |-> cb2, admitted |-> FALSE, retry_after |-> RecoveryTimeout]
    ELSE [cb |-> cb2, admitted |-> TRUE, retry_after |-> 0]

\* The part of call before the await: the state read and the fast-fail test.
CircuitBreaker_admit(cb, t) ==
    LET cb2 == CircuitBreaker_state(cb, t) IN
    IF cb2.state = OPEN
    THEN [cb |-> cb2, admitted |-> FALSE,
          retry_after |-> Max(RecoveryTimeout - (t - cb2.last_failure_time), 0)]
    ELSE [cb |-> cb2, admitted |-> TRUE, retry_after |-> 0]

\* variant: every exception counts as a failure (expected_exceptions = Exception)
CircuitBreaker_complete_any(cb, t, outcome) ==
    CASE outcome = "ok" -> record_success(cb)
      [] OTHER -> record_failure(cb, t)

\* variant: an unclassified failure of a HALF_OPEN breaker re-opens it
CircuitBreaker_complete_other_reopens(cb, t, outcome) ==
    CASE outcome = "ok" -> record_success(cb)
      [] outcome = "expected" -> record_failure(cb, t)
      [] OTHER -> IF cb.state = HALF_OPEN
                  THEN [cb EXCEPT !.state = OPEN, !.last_failure_time = t]
                  ELSE cb

\* The part of call after the await, by what func did.
CircuitBreaker_complete(cb, t, outcome) ==
    CASE outcome = "ok" -> record_success(cb)
      [] outcome = "expected" -> record_failure(cb, t)
      [] OTHER -> cb

\* ------------------------------------------------------- retry_with_backoff
Min(a, b) == IF a <= b THEN a ELSE b

\* the exception classes func raises here, each with its base classes
Bases ==
    [e \in {"ConnectionError", "TimeoutError", "OSError", "ValueError"} |->
       CASE e = "ConnectionError" -> {"ConnectionError", "OSError", "Exception"}
         [] e = "TimeoutError" -> {"TimeoutError", "OSError", "Exception"}
         [] e = "OSError" -> {"OSError", "Exception"}
         [] e = "ValueError" -> {"ValueError", "Exception"}]

\* variant: except Exception in place of except retryable_exceptions
isinstance_any(exc, classes) == "Exception" \in Bases[exc]

\* isinstance(exc, classes), as an except clause tests it
isinstance(exc, classes) == Bases[exc] \cap classes # {}

\* the default of retryable_exceptions
DefaultRetryable == {"ConnectionError", "OSError", "TimeoutError"}

\* the wrapper before its first attempt
wrapper_init(max_retries, base_delay, max_delay, jitter, retryable) ==
    [max_retries |-> max_retries, base_delay |-> base_delay,
     max_delay |-> max_delay, jitter |-> jitter, retryable |-> retryable,
     pc |-> "call", attempt |-> 0, delay |-> base_delay,
     last_exception |-> "", actual_delay |-> 0,
     calls |-> 0, raised |-> <<>>, slept |-> <<>>, outcome |-> ""]

IdleRetry ==
    [wrapper_init(0, 0, 0, FALSE, {}) EXCEPT !.pc = "idle"]

\* variant: the loop runs over range(max_retries)
wrapper_next_short(w) ==
    IF w.attempt + 1 < w.max_retries
    THEN [w EXCEPT !.pc = "call", !.attempt = w.attempt + 1]
    ELSE [w EXCEPT !.pc = "done", !.outcome = w.last_exception]

\* for attempt in range(max_retries + 1): the next attempt, or the raise of
\* last_exception once the loop is over
wrapper_next(w) ==
    IF w.attempt + 1 < w.max_retries + 1
    THEN [w EXCEPT !.pc = "call", !.attempt = w.attempt + 1]
    ELSE [w EXCEPT !.pc = "done", !.outcome = w.last_exception]

\* random.uniform(0, actual_delay * 0.5), in whole ticks
Jitter(w) ==
    IF w.jitter THEN 0..(Min(w.delay, w.max_delay) \div 2) ELSE {0}

\* func is awaited: calls counts the invocations
wrapper_invoke(w) == [w EXCEPT !.calls = w.calls + 1]

\* variant: the test before the sleep is attempt + 1 < max_retries
wrapper_except_strict(w, exc, j) ==
    LET w1 == [w EXCEPT !.last_exception = exc,
                        !.raised = Append(w.raised, exc)]
    IN IF w.attempt + 1 < w.max_retries
       THEN [w1 EXCEPT !.pc = "sleep",
                       !.actual_delay = Min(w.delay, w.max_delay) + j]
       ELSE wrapper_next(w1)

\* except retryable_exceptions as exc, with jitter j
wrapper_except(w, exc, j) ==
    LET w1 == [w EXCEPT !.last_exception = exc,
                        !.raised = Append(w.raised, exc)]
    IN IF w.attempt < w.max_retries
       THEN [w1 EXCEPT !.pc = "sleep",
                       !.actual_delay = Min(w.delay, w.max_delay) + j]
       ELSE wrapper_next(w1)

\* an exception no except clause catches leaves the wrapper
wrapper_propagate(w, exc) ==
    [w EXCEPT !.pc = "done", !.outcome = exc,
              !.raised = Append(w.raised, exc)]

\* variant: the delay is not doubled
wrapper_wake_constant(w) ==
    wrapper_next([w EXCEPT !.slept = Append(w.slept, w.actual_delay)])

\* asyncio.sleep(actual_delay) is over: delay *= 2 and the loop goes on
wrapper_wake(w) ==
    wrapper_next([w EXCEPT !.delay = 2 * w.delay,
                           !.slept = Append(w.slept, w.actual_delay)])

\* ------------------------------------------------------------------- cache
\* A key is the str it stands for, cut into the pieces the services build it
\* from; startswith is the prefix test on the pieces.
\* An Optional is None or Some(v); no caller ever stores None.
None == <<>>

Some(v) == <<v>>

startswith(k, p) == Len(p) <= Len(k) /\ SubSeq(k, 1, Len(p)) = p

CacheEntry(value, t) == [value |-> value, created_at |-> t]

\* variant: an entry is expired as soon as its age reaches ttl
is_expired_at_ttl(entry, ttl, t) == (t - entry.created_at) >= ttl

is_expired(entry, ttl, t) == (t - entry.created_at) > ttl

\* _store is a dict: the keys in insertion order, each with its entry
TTLCache_init(enabled) ==
    [store |-> <<>>, enabled |-> enabled, hits |-> 0, misses |-> 0]

StoreKeys(store) == {store[i].key : i \in DOMAIN store}

StoreIndex(store, key) == CHOOSE i \in DOMAIN store : store[i].key = key

StoreDel(store, key) ==
    LET i == StoreIndex(store, key) IN
    SubSeq(store, 1, i - 1) \o SubSeq(store, i + 1, Len(store))

\* variant: an overwritten key moves to the back of the insertion order
StorePut_move_to_end(store, key, entry) ==
    IF key \in StoreKeys(store)
    THEN Append(StoreDel(store, key), [key |-> key, entry |-> entry])
    ELSE Append(store, [key |-> key, entry |-> entry])

\* _store[key] = entry: a key already there keeps its place in the order
StorePut(store, key, entry) ==
    IF key \in StoreKeys(store)
    THEN [store EXCEPT ![StoreIndex(store, key)] = [key |-> key, entry |-> entry]]
    ELSE Append(store, [key |-> key, entry |-> entry])

\* variant: a lookup that finds its entry expired removes every expired entry
TTLCache_get_purges_expired(c, key, t) ==
    IF ~c.enabled THEN [cache |-> c, value |-> None]
    ELSE IF key \notin StoreKeys(c.store)
    THEN [cache |-> [c EXCEPT !.misses = c.misses + 1], value |-> None]
    ELSE LET entry == c.store[StoreIndex(c.store, key)].entry
             fresh(e) == ~((t - e.entry.created_at) > CacheTTL)
         IN
         IF (t - entry.created_at) > CacheTTL
         THEN [cache |-> [c EXCEPT !.store = SelectSeq(c.store, fresh),
                                   !.misses = c.misses + 1],
               value |-> None]
         ELSE [cache |-> [c EXCEPT !.hits = c.hits + 1],
               value |-> Some(entry.value)]

\* variant: a lookup that finds an expired entry is not counted
TTLCache_get_expired_uncounted(c, key, t) ==
    IF ~c.enabled THEN [cache |-> c, value |-> None]
    ELSE IF key \notin StoreKeys(c.store)
    THEN [cache |-> [c EXCEPT !.misses = c.misses + 1], value |-> None]
    ELSE LET entry == c.store[StoreIndex(c.store, key)].entry IN
         IF is_expired(entry, CacheTTL, t)
         THEN [cache |-> [c EXCEPT !.store = StoreDel(c.store, key)],
               value |-> None]
         ELSE [cache |-> [c EXCEPT !.hits = c.hits + 1],
               value |-> Some(entry.value)]

TTLCache_get(c, key, t) ==
    IF ~c.enabled THEN [cache |-> c, value |-> None]
    ELSE IF key \notin StoreKeys(c.store)
    THEN [cache |-> [c EXCEPT !.misses = c.misses + 1], value |-> None]
    ELSE LET entry == c.store[StoreIndex(c.store, key)].entry IN
         IF is_expired(entry, CacheTTL, t)
         THEN [cache |-> [c EXCEPT !.store = StoreDel(c.store, key),
                                   !.misses = c.misses + 1],
               value |-> None]
         ELSE [cache |-> [c EXCEPT !.hits = c.hits + 1],
               value |-> Some(entry.value)]

\* variant: the capacity test with > in place of >=
TTLCache_set_gt(c, key, value, t) ==
    IF ~c.enabled THEN c
    ELSE LET kept == IF Len(c.store) > CacheMaxSize
                        /\ key \notin StoreKeys(c.store)
                     THEN Tail(c.store)
                     ELSE c.store
         IN [c EXCEPT !.store = StorePut(kept, key, CacheEntry(value, t))]

\* variant: the entry evicted is the newest one
TTLCache_set_evict_newest(c, key, value, t) ==
    IF ~c.enabled THEN c
    ELSE LET kept == IF Len(c.store) >= CacheMaxSize
                        /\ key \notin StoreKeys(c.store)
                     THEN SubSeq(c.store, 1, Len(c.store) - 1)
                     ELSE c.store
         IN [c EXCEPT !.store = StorePut(kept, key, CacheEntry(value, t))]

\* variant: set stores whether or not the cache is enabled
TTLCache_set_always(c, key, value, t) ==
    LET kept == IF Len(c.store) >= CacheMaxSize
                   /\ key \notin StoreKeys(c.store)
                THEN Tail(c.store)
                ELSE c.store
    IN [c EXCEPT !.store = StorePut(kept, key, CacheEntry(value, t))]

TTLCache_set(c, key, value, t) ==
    IF ~c.enabled THEN c
    ELSE LET kept == IF Len(c.store) >= CacheMaxSize
                        /\ key \notin StoreKeys(c.store)
                     THEN Tail(c.store)
                     ELSE c.store
         IN [c EXCEPT !.store = StorePut(kept, key, CacheEntry(value, t))]

\* variant: all() in place of any() over the prefixes
TTLCache_invalidate_all(c, prefixes) ==
    IF ~c.enabled THEN [cache |-> c, count |-> 0]
    ELSE LET hit(e) == \A p \in prefixes : startswith(e.key, p)
             keep(e) == ~hit(e)
             left == SelectSeq(c.store, keep)
         IN [cache |-> [c EXCEPT !.store = left],
             count |-> Len(c.store) - Len(left)]

TTLCache_invalidate(c, prefixes) ==
    IF ~c.enabled THEN [cache |-> c, count |-> 0]
    ELSE LET hit(e) == \E p \in prefixes : startswith(e.key, p)
             keep(e) == ~hit(e)
             left == SelectSeq(c.store, keep)
         IN [cache |-> [c EXCEPT !.store = left],
             count |-> Len(c.store) - Len(left)]

TTLCache_clear(c) == [c EXCEPT !.store = <<>>]

FUNDS == <<"funds:">>
INVESTORS == <<"investors:">>
INVESTMENTS == <<"investments:">>

Prefixes == {FUNDS, INVESTORS, INVESTMENTS}

TestKeys ==
    {FUNDS \o <<"f1">>, FUNDS \o <<"list:", "0", ":", "100">>,
     INVESTMENTS \o <<"f1", ":", "0", ":", "100">>}

TestValues == {"v1", "v2"}

NoSet == [live |-> FALSE, at |-> 0, value |-> ""]

NoSets == [k \in TestKeys |-> NoSet]

Range(seq) == {seq[i] : i \in DOMAIN seq}

\* history: nothing set yet on an empty store; and the log once a set was an
\* overwrite or a key was removed other than by eviction
NoLog == [clean |-> TRUE, keys |-> <<>>]

Dirty == [clean |-> FALSE, keys |-> <<>>]

\* ------------------------------------------------------------------ tables
FUNDRAISING == "Fundraising"
INVESTING == "Investing"
FUND_CLOSED == "Closed"

FundStatus == {FUNDRAISING, INVESTING, FUND_CLOSED}

Absent == "absent"

FundIds == {"f1", "f2"}
InvestorIds == {"i1", "i2"}
Dates == {1, 2}

\* SpecService: two requests are served at a time
Reqs == {1, 2}

IdleReq ==
    [op |-> "", pc |-> "idle", at |-> "", fund_id |-> "", investor_id |-> "",
     email |-> "", status |-> "", date |-> 0, skip |-> 0, limit |-> 0,
     ret |-> [exc |-> "", value |-> ""], fund |-> "", investor |-> "",
     issued |-> {}, rolled_back |-> FALSE,
     outcome |-> "", result |-> None,
     response |-> [status_code |-> 0, headers |-> {}]]

\* the tables before any row is inserted
EmptyTables ==
    /\ funds = [f \in FundIds |-> Absent]
    /\ investors = {}
    /\ investments = <<>>

\* the database a request can find: fund f1 in any status, investor i1
InitTables ==
    /\ funds \in {[f \in FundIds |-> IF f = "f1" THEN s ELSE Absent] :
                    s \in FundStatus}
    /\ investors = {"i1"}
    /\ investments = <<>>

\* history: the run of classified failures that began CLOSED with failure_count 0
RunAfter(r, outcome) ==
    CASE outcome = "ok" -> 0
      [] outcome = "expected" -> IF r >= 0 THEN r + 1 ELSE -1
      [] OTHER -> IF r = 0 THEN 0 ELSE -1

IdleCaller == [pc |-> "idle", admitted_in |-> CLOSED]

InitBreaker ==
    /\ now = 0
    /\ breaker = CircuitBreaker_init
    /\ callers = [c \in Callers |-> IdleCaller]
    /\ invoked = 0
    /\ run = 0
    /\ lastOp = [op |-> "init", who |-> 0, result |-> "", retry_after |-> 0]
    /\ cache = TTLCache_init(TRUE)
    /\ lastSet = NoSets
    /\ setLog = NoLog
    /\ gets = 0
    /\ retry = IdleRetry
    /\ EmptyTables
    /\ reqs = [r \in Reqs |-> IdleReq]
    /\ started = 0

Tick ==
    /\ now < MaxTime
    /\ now' = now + 1
    /\ lastOp' = [op |-> "tick", who |-> 0, result |-> "", retry_after |-> 0]
    /\ UNCHANGED <<retryVars, breakerVars, cacheVars, svcVars>>

\* call, up to the await of func: rejected while OPEN, admitted otherwise
CallEnter(c) ==
    /\ callers[c].pc = "idle"
    /\ invoked < MaxCalls
    /\ LET a == CircuitBreaker_admit(breaker, now) IN
       /\ breaker' = a.cb
       /\ IF a.admitted
          THEN /\ callers' = [callers EXCEPT ![c] =
                     [pc |-> "inflight", admitted_in |-> a.cb.state]]
               /\ invoked' = invoked + 1
               /\ lastOp' = [op |-> "call_enter", who |-> c,
                             result |-> "admitted", retry_after |-> 0]
          ELSE /\ UNCHANGED <<callers, invoked>>
               /\ lastOp' = [op |-> "call_enter", who |-> c,
                             result |-> "CircuitBreakerError",
                             retry_after |-> a.retry_after]
    /\ UNCHANGED <<retryVars, now, run, cacheVars, svcVars>>

\* call, from the completion of func on
CallComplete(c, outcome) ==
    /\ callers[c].pc = "inflight"
    /\ breaker' = CircuitBreaker_complete(breaker, now, outcome)
    /\ callers' = [callers EXCEPT ![c].pc = "idle"]
    /\ run' = RunAfter(run, outcome)
    /\ lastOp' = [op |-> "call_exit", who |-> c, result |-> outcome,
                  retry_after |-> 0]
    /\ UNCHANGED <<retryVars, now, invoked, cacheVars, svcVars>>

CallReturn(c) == CallComplete(c, "ok")
CallRaiseExpected(c) == CallComplete(c, "expected")
CallRaiseOther(c) == CallComplete(c, "other")

\* a read of the state property
ReadState ==
    /\ breaker' = CircuitBreaker_state(breaker, now)
    /\ lastOp' = [op |-> "state", who |-> 0,
                  result |-> CircuitBreaker_state(breaker, now).state,
                  retry_after |-> 0]
    /\ UNCHANGED <<retryVars, now, callers, invoked, run, cacheVars, svcVars>>

get_status ==
    /\ breaker' = CircuitBreaker_state(breaker, now)
    /\ lastOp' = [op |-> "get_status", who |-> 0,
                  result |-> CircuitBreaker_state(breaker, now).state,
                  retry_after |-> 0]
    /\ UNCHANGED <<retryVars, now, callers, invoked, run, cacheVars, svcVars>>

NextBreaker ==
    \/ Tick
    \/ \E c \in Callers : CallEnter(c)
    \/ \E c \in Callers : CallReturn(c)
    \/ \E c \in Callers : CallRaiseExpected(c)
    \/ \E c \in Callers : CallRaiseOther(c)
    \/ ReadState
    \/ get_status

SpecBreaker == InitBreaker /\ [][NextBreaker]_vars

\* --------------------------------------------------- the cache on its own
\* history: a set that is dropped by invalidate, clear or eviction stands no more
SetsAfter(removed) ==
    [k \in TestKeys |-> IF k \in removed THEN NoSet ELSE lastSet[k]]

InitCache ==
    /\ now = 0
    /\ breaker = CircuitBreaker_init
    /\ callers = [c \in Callers |-> IdleCaller]
    /\ invoked = 0
    /\ run = 0
    /\ cache \in {TTLCache_init(e) : e \in BOOLEAN}
    /\ lastSet = NoSets
    /\ setLog = NoLog
    /\ gets = 0
    /\ retry = IdleRetry
    /\ EmptyTables
    /\ reqs = [r \in Reqs |-> IdleReq]
    /\ started = 0
    /\ lastOp = [op |-> "init", who |-> 0, result |-> "", retry_after |-> 0]

CacheGet(k) ==
    /\ gets < MaxGets
    /\ gets' = gets + 1
    /\ LET g == TTLCache_get(cache, k, now) IN
       /\ cache' = g.cache
       /\ setLog' = IF g.cache.store = cache.store THEN setLog ELSE Dirty
       /\ lastOp' = [op |-> "get", who |-> k, result |-> g.value,
                     retry_after |-> 0]
    /\ UNCHANGED <<retryVars, now, breakerVars, lastSet, svcVars>>

CacheSet(k, v) ==
    /\ cache' = TTLCache_set(cache, k, v, now)
    /\ lastSet' =
         [SetsAfter(StoreKeys(cache.store) \ StoreKeys(cache'.store))
            EXCEPT ![k] = [live |-> TRUE, at |-> now, value |-> v]]
    /\ setLog' = IF ~cache.enabled THEN setLog
                 ELSE IF setLog.clean /\ k \notin Range(setLog.keys)
                 THEN [setLog EXCEPT !.keys = Append(setLog.keys, k)]
                 ELSE Dirty
    /\ lastOp' = [op |-> "set", who |-> k, result |-> "", retry_after |-> 0]
    /\ UNCHANGED <<retryVars, now, breakerVars, gets, svcVars>>

CacheInvalidate(ps) ==
    /\ LET r == TTLCache_invalidate(cache, ps) IN
       /\ cache' = r.cache
       /\ lastOp' = [op |-> "invalidate", who |-> ps, result |-> r.count,
                     retry_after |-> 0]
    /\ lastSet' = SetsAfter({k \in TestKeys : \E p \in ps : startswith(k, p)})
    /\ setLog' = IF cache.enabled THEN Dirty ELSE setLog
    /\ UNCHANGED <<retryVars, now, breakerVars, gets, svcVars>>

CacheClear ==
    /\ cache' = TTLCache_clear(cache)
    /\ lastSet' = NoSets
    /\ setLog' = NoLog
    /\ lastOp' = [op |-> "clear", who |-> 0, result |-> "", retry_after |-> 0]
    /\ UNCHANGED <<retryVars, now, breakerVars, gets, svcVars>>

CacheTick ==
    /\ now < MaxCacheTime
    /\ now' = now + 1
    /\ lastOp' = [op |-> "tick", who |-> 0, result |-> "", retry_after |-> 0]
    /\ UNCHANGED <<retryVars, breakerVars, cacheVars, svcVars>>

\* the prefix tuples invalidate is called with: one prefix, one that matches
\* no key, several prefixes
InvalidateArgs == {{FUNDS}, {INVESTMENTS}, {INVESTORS}, {FUNDS, INVESTMENTS}}

NextCache ==
    \/ CacheTick
    \/ \E k \in TestKeys : CacheGet(k)
    \/ \E k \in TestKeys, v \in TestValues : CacheSet(k, v)
    \/ \E ps \in InvalidateArgs : CacheInvalidate(ps)
    \/ CacheClear

SpecCache == InitCache /\ [][NextCache]_vars

\* ------------------------------------------- retry_with_backoff on its own
BaseDelays == {1, 2}
MaxDelays == {2, 3}
Raisable == {"ConnectionError", "TimeoutError", "ValueError"}

InitRetry ==
    /\ now = 0
    /\ breaker = CircuitBreaker_init
    /\ callers = [c \in Callers |-> IdleCaller]
    /\ invoked = 0
    /\ run = 0
    /\ cache = TTLCache_init(TRUE)
    /\ lastSet = NoSets
    /\ setLog = NoLog
    /\ gets = 0
    /\ EmptyTables
    /\ reqs = [r \in Reqs |-> IdleReq]
    /\ started = 0
    /\ lastOp = [op |-> "init", who |-> 0, result |-> "", retry_after |-> 0]
    /\ retry \in {wrapper_init(n, b, m, j, rx) :
                    n \in 0..MaxRetries, b \in BaseDelays, m \in MaxDelays,
                    j \in BOOLEAN,
                    rx \in {DefaultRetryable, {"ConnectionError"}}}

\* an attempt whose func returns
RetryReturn ==
    /\ retry.pc = "call"
    /\ retry' = [wrapper_invoke(retry) EXCEPT !.pc = "done", !.outcome = "ok"]
    /\ lastOp' = [op |-> "attempt", who |-> retry.attempt, result |-> "ok",
                  retry_after |-> 0]
    /\ UNCHANGED <<now, breakerVars, cacheVars, svcVars>>

\* an attempt whose func raises exc
RetryRaise(exc) ==
    /\ retry.pc = "call"
    /\ IF isinstance(exc, retry.retryable)
       THEN \E j \in Jitter(retry) :
              retry' = wrapper_except(wrapper_invoke(retry), exc, j)
       ELSE retry' = wrapper_propagate(wrapper_invoke(retry), exc)
    /\ lastOp' = [op |-> "attempt", who |-> retry.attempt, result |-> exc,
                  retry_after |-> 0]
    /\ UNCHANGED <<now, breakerVars, cacheVars, svcVars>>

\* the sleep between two attempts ends
RetryWake ==
    /\ retry.pc = "sleep"
    /\ now' = now + retry.actual_delay
    /\ retry' = wrapper_wake(retry)
    /\ lastOp' = [op |-> "sleep", who |-> retry.attempt,
                  result |-> "", retry_after |-> retry.actual_delay]
    /\ UNCHANGED <<breakerVars, cacheVars, svcVars>>

NextRetry ==
    \/ RetryReturn
    \/ \E exc \in Raisable : RetryRaise(exc)
    \/ RetryWake

SpecRetry == InitRetry /\ [][NextRetry]_vars

\* ---------------------------------------------------------------- services
\* What the database driver can raise on any statement, and on a write.
DbErrors == {"ConnectionError", "OperationalError"}
WriteErrors == DbErrors \cup {"IntegrityError"}

\* expected_exceptions of db_circuit_breaker
ExpectedExceptions == {"ConnectionError", "OSError", "TimeoutError"}

BreakerOutcome(exc) ==
    IF exc = "" THEN "ok"
    ELSE IF exc \in ExpectedExceptions THEN "expected" ELSE "other"

\* variant: a Closed fund may be moved back to Investing
ALLOWED_TRANSITIONS_reopen ==
    [c \in FundStatus |->
       CASE c = FUNDRAISING -> {FUNDRAISING, INVESTING, FUND_CLOSED}
         [] c = INVESTING -> {INVESTING, FUND_CLOSED}
         [] c = FUND_CLOSED -> {FUND_CLOSED, INVESTING}]

\* _ALLOWED_TRANSITIONS
ALLOWED_TRANSITIONS ==
    [c \in FundStatus |->
       CASE c = FUNDRAISING -> {FUNDRAISING, INVESTING, FUND_CLOSED}
         [] c = INVESTING -> {INVESTING, FUND_CLOSED}
         [] c = FUND_CLOSED -> {FUND_CLOSED}]

\* TRUE when _validate_status_transition returns, FALSE when it raises
validate_status_transition(current, requested) ==
    requested \in ALLOWED_TRANSITIONS[current]

\* str() of the ints that appear in cache keys
\* {n} in an f-string: the decimal digits of n, one character each
RECURSIVE ToStr(_)
ToStr(n) ==
    LET Digit(d) ==
            CASE d = 0 -> "0" [] d = 1 -> "1" [] d = 2 -> "2" [] d = 3 -> "3"
              [] d = 4 -> "4" [] d = 5 -> "5" [] d = 6 -> "6" [] d = 7 -> "7"
              [] d = 8 -> "8" [] d = 9 -> "9"
    IN IF n < 10 THEN <<Digit(n)>>
       ELSE ToStr(n \div 10) \o <<Digit(n % 10)>>

InvestmentsKey(fund_id, skip, limit) ==
    INVESTMENTS \o <<fund_id, ":">> \o ToStr(skip) \o <<":">> \o ToStr(limit)

\* ORDER BY investment_date DESC (rows of one date in insertion order)
InsertByDateDesc(row, sorted) ==
    LET k == Cardinality({i \in DOMAIN sorted :
                            sorted[i].investment_date >= row.investment_date})
    IN SubSeq(sorted, 1, k) \o <<row>> \o SubSeq(sorted, k + 1, Len(sorted))

RECURSIVE OrderByDateDesc(_)
OrderByDateDesc(rows) ==
    IF rows = <<>> THEN <<>>
    ELSE InsertByDateDesc(rows[Len(rows)],
                          OrderByDateDesc(SubSeq(rows, 1, Len(rows) - 1)))

\* OFFSET skip LIMIT limit
OffsetLimit(rows, skip, limit) ==
    SubSeq(rows, skip + 1,
           IF skip + limit < Len(rows) THEN skip + limit ELSE Len(rows))

InvestmentRepository_get_by_fund(rows, fund_id, skip, limit) ==
    LET of_fund(row) == row.fund_id = fund_id IN
    OffsetLimit(OrderByDateDesc(SelectSeq(rows, of_fund)), skip, limit)

\* ---- the response to a request, by the handlers of add_exception_handlers
\* the class of the exception a request ended with
ExcClass(outcome) ==
    CASE outcome \in {"NotFound(Fund)", "NotFound(Investor)"} ->
           "NotFoundException"
      [] outcome = "Conflict" -> "ConflictException"
      [] outcome \in {"BusinessRuleViolation(closed)",
                      "BusinessRuleViolation(transition)",
                      "BusinessRuleViolation(constraint)"} ->
           "BusinessRuleViolation"
      [] OTHER -> outcome

\* type(exc).__mro__
Mro(cls) ==
    CASE cls \in {"NotFoundException", "ConflictException",
                  "BusinessRuleViolation"} ->
           <<cls, "AppException", "Exception">>
      [] cls = "CircuitBreakerError" -> <<cls, "Exception">>
      [] cls \in {"ConnectionError", "TimeoutError"} ->
           <<cls, "OSError", "Exception">>
      [] cls \in {"OperationalError", "IntegrityError"} ->
           <<cls, "DatabaseError", "DBAPIError", "StatementError",
             "SQLAlchemyError", "Exception">>
      [] OTHER -> <<cls, "Exception">>

\* the classes add_exception_handlers registers a handler for
Handlers ==
    {"AppException", "StarletteHTTPException", "RequestValidationError",
     "Exception"}

\* status_code as the exception's __init__ sets it
AppStatus(cls) ==
    CASE cls = "NotFoundException" -> 404
      [] cls = "ConflictException" -> 409
      [] cls = "BusinessRuleViolation" -> 422

\* the handler of the first class of the MRO that has one, and its response
exception_response(cls) ==
    LET mro == Mro(cls)
        k == CHOOSE i \in DOMAIN mro :
               /\ mro[i] \in Handlers
               /\ \A j \in 1..(i - 1) : mro[j] \notin Handlers
    IN CASE mro[k] = "AppException" ->
              [status_code |-> AppStatus(cls), headers |-> {}]
         [] mro[k] = "Exception" -> [status_code |-> 500, headers |-> {}]

\* the status_code of the route: 201 on the three POST routes
http_response(op, outcome) ==
    IF outcome = "ok"
    THEN [status_code |-> IF op \in {"create_fund", "create_investor",
                                     "create_investment"}
                          THEN 201 ELSE 200,
          headers |-> {}]
    ELSE exception_response(ExcClass(outcome))

\* a request that has ended, by raising outcome or by returning result
Finish(q, outcome, result) ==
    [q EXCEPT !.pc = "done", !.at = "", !.ret = IdleReq.ret,
              !.outcome = outcome, !.result = result,
              !.response = http_response(q.op, outcome)]

\* a request at the await of a database statement
Await(q, op) ==
    [q EXCEPT !.pc = op, !.at = "call", !.ret = IdleReq.ret,
              !.issued = q.issued \cup {op}]

\* _execute_with_circuit_breaker up to the await: the request and the breaker
execute_with_circuit_breaker(q, cb, t, op) ==
    LET a == CircuitBreaker_admit(cb, t) IN
    [req |-> IF a.admitted THEN Await(q, op)
             ELSE Finish(q, "CircuitBreakerError", None),
     cb |-> a.cb]

\* the statement has run in the database: the coroutine can be resumed
Returned(q, exc, value) ==
    [q EXCEPT !.at = "ret", !.ret = [exc |-> exc, value |-> value]]

InitService ==
    /\ now = 0
    /\ breaker = CircuitBreaker_init
    /\ callers = [c \in Callers |-> IdleCaller]
    /\ invoked = 0
    /\ run = 0
    /\ cache = TTLCache_init(TRUE)
    /\ lastSet = NoSets
    /\ setLog = NoLog
    /\ gets = 0
    /\ retry = IdleRetry
    /\ InitTables
    /\ reqs = [r \in Reqs |-> IdleReq]
    /\ started = 0
    /\ lastOp = [op |-> "init", who |-> 0, result |-> "", retry_after |-> 0]

\* every service method here begins with fund_repo.get(fund_id); the idle
\* workers are interchangeable, so the lowest one takes the request
Begin(r, q) ==
    /\ reqs[r].pc = "idle"
    /\ \A r2 \in Reqs : r2 < r => reqs[r2].pc # "idle"
    /\ started < MaxRequests
    /\ started' = started + 1
    /\ LET x == execute_with_circuit_breaker(q, breaker, now, "fund_get") IN
       /\ reqs' = [reqs EXCEPT ![r] = x.req]
       /\ breaker' = x.cb
    /\ UNCHANGED <<retryVars, now, callers, invoked, run, cacheVars, funds, investors,
                   investments, lastOp>>

\* the response is sent and the worker is free for the next request
Respond(r) ==
    /\ reqs[r].pc = "done"
    /\ started < MaxRequests
    /\ reqs' = [reqs EXCEPT ![r] = IdleReq]
    /\ UNCHANGED <<retryVars, now, breakerVars, cacheVars, funds, investors, investments,
                   started, lastOp>>

create_investment(r, f, i, d) ==
    Begin(r, [IdleReq EXCEPT !.op = "create_investment", !.fund_id = f,
                             !.investor_id = i, !.date = d])

update_fund(r, f, st) ==
    Begin(r, [IdleReq EXCEPT !.op = "update_fund", !.fund_id = f,
                             !.status = st])

get_investments_by_fund(r, f, skip, limit) ==
    Begin(r, [IdleReq EXCEPT !.op = "get_investments_by_fund", !.fund_id = f,
                             !.skip = skip, !.limit = limit])

\* ---- the statements, as the database runs them
DbRead(r, op, value) ==
    /\ reqs[r].pc = op
    /\ reqs[r].at = "call"
    /\ \E exc \in DbErrors \cup {""} :
         reqs' = [reqs EXCEPT ![r] = Returned(reqs[r], exc, value)]
    /\ UNCHANGED <<retryVars, now, breakerVars, cacheVars, funds, investors, investments,
                   started, lastOp>>

db_get_fund(r) == DbRead(r, "fund_get", funds[reqs[r].fund_id])

db_get_investor(r) ==
    DbRead(r, "investor_get", reqs[r].investor_id \in investors)

db_get_by_fund(r) ==
    DbRead(r, "get_by_fund",
           InvestmentRepository_get_by_fund(investments, reqs[r].fund_id,
                                            reqs[r].skip, reqs[r].limit))

\* INSERT INTO investments; both foreign keys are checked by the database
db_create_investment(r) ==
    /\ reqs[r].op = "create_investment"
    /\ reqs[r].pc = "create"
    /\ reqs[r].at = "call"
    /\ LET q == reqs[r]
           row == [fund_id |-> q.fund_id, investor_id |-> q.investor_id,
                   investment_date |-> q.date,
                   fund_status_at_write |-> funds[q.fund_id]]
       IN \/ /\ funds[q.fund_id] # Absent
             /\ q.investor_id \in investors
             /\ investments' = Append(investments, row)
             /\ reqs' = [reqs EXCEPT ![r] = Returned(q, "", row)]
          \/ /\ \E exc \in WriteErrors :
                  reqs' = [reqs EXCEPT ![r] = Returned(q, exc, "")]
             /\ UNCHANGED investments
    /\ UNCHANGED <<retryVars, now, breakerVars, cacheVars, funds, investors, started,
                   lastOp>>

\* UPDATE funds SET <the attributes that differ from the loaded row>
db_update_fund(r) ==
    /\ reqs[r].pc = "update"
    /\ reqs[r].at = "call"
    /\ LET q == reqs[r]
           row == IF q.status # q.fund THEN q.status ELSE funds[q.fund_id]
       IN \/ /\ funds' = [funds EXCEPT ![q.fund_id] = row]
             /\ reqs' = [reqs EXCEPT ![r] = Returned(q, "", row)]
          \/ /\ \E exc \in WriteErrors :
                  reqs' = [reqs EXCEPT ![r] = Returned(q, exc, "")]
             /\ UNCHANGED funds
    /\ UNCHANGED <<retryVars, now, breakerVars, cacheVars, investors, investments,
                   started, lastOp>>

\* ---- the coroutines, from one await to the next
Resumed(r, op, pc) ==
    /\ reqs[r].op = op
    /\ reqs[r].pc = pc
    /\ reqs[r].at = "ret"

\* what the service raises for an exception of the awaited statement: the
\* writes are wrapped in except IntegrityError (rollback, then a 422, or a 409
\* in create_investor)
\* variant: FundService has no except IntegrityError
Raised_fund_uncaught(q) ==
    IF q.pc \in {"create", "update"} /\ q.ret.exc = "IntegrityError"
       /\ q.op \notin {"create_fund", "update_fund"}
    THEN IF q.op = "create_investor" THEN "Conflict"
         ELSE "BusinessRuleViolation(constraint)"
    ELSE q.ret.exc

Raised(q) ==
    IF q.pc \in {"create", "update"} /\ q.ret.exc = "IntegrityError"
    THEN IF q.op = "create_investor" THEN "Conflict"
         ELSE "BusinessRuleViolation(constraint)"
    ELSE q.ret.exc

\* CircuitBreaker.call after its await: the breaker once the outcome is recorded
Completed(r) ==
    CircuitBreaker_complete(breaker, now, BreakerOutcome(reqs[r].ret.exc))

\* the awaited statement raised: the exception leaves the service method, after
\* db.rollback() where an except IntegrityError caught it
Failed(q, cb) ==
    [req |-> Finish([q EXCEPT !.rolled_back = Raised(q) # q.ret.exc],
                    Raised(q), None),
     cb |-> cb, cache |-> cache]

\* variant: the status of the fund is not looked at
create_investment_fund_any_status(q, cb) ==
    IF q.ret.exc # "" THEN Failed(q, cb)
    ELSE IF q.ret.value = Absent
    THEN [req |-> Finish(q, "NotFound(Fund)", None), cb |-> cb, cache |-> cache]
    ELSE LET x == execute_with_circuit_breaker(
                      [q EXCEPT !.fund = q.ret.value], cb, now, "investor_get")
         IN [req |-> x.req, cb |-> x.cb, cache |-> cache]

\* variant: the cached copy of the fund is used when there is one
create_investment_fund_cached(q, cb) ==
    LET g == TTLCache_get(cache, FUNDS \o <<q.fund_id>>, now)
        status == IF g.value # None THEN g.value[1] ELSE q.ret.value
    IN
    IF q.ret.exc # "" THEN Failed(q, cb)
    ELSE IF q.ret.value = Absent
    THEN [req |-> Finish(q, "NotFound(Fund)", None), cb |-> cb, cache |-> cache]
    ELSE IF status = FUND_CLOSED
    THEN [req |-> Finish([q EXCEPT !.fund = q.ret.value],
                         "BusinessRuleViolation(closed)", None),
          cb |-> cb, cache |-> cache]
    ELSE LET x == execute_with_circuit_breaker(
                      [q EXCEPT !.fund = q.ret.value], cb, now, "investor_get")
         IN [req |-> x.req, cb |-> x.cb, cache |-> cache]

create_investment_fund(q, cb) ==
    IF q.ret.exc # "" THEN Failed(q, cb)
    ELSE IF q.ret.value = Absent
    THEN [req |-> Finish(q, "NotFound(Fund)", None), cb |-> cb, cache |-> cache]
    ELSE IF q.ret.value = FUND_CLOSED
    THEN [req |-> Finish([q EXCEPT !.fund = q.ret.value],
                         "BusinessRuleViolation(closed)", None),
          cb |-> cb, cache |-> cache]
    ELSE LET x == execute_with_circuit_breaker(
                      [q EXCEPT !.fund = q.ret.value], cb, now, "investor_get")
         IN [req |-> x.req, cb |-> x.cb, cache |-> cache]

\* variant: the insert is attempted whether or not the investor was found
create_investment_investor_unchecked(q, cb) ==
    IF q.ret.exc # "" THEN Failed(q, cb)
    ELSE
    LET x == execute_with_circuit_breaker(
                 [q EXCEPT !.investor = IF q.ret.value THEN "row" ELSE "None"],
                 cb, now, "create")
    IN [req |-> x.req, cb |-> x.cb, cache |-> cache]

create_investment_investor(q, cb) ==
    IF q.ret.exc # "" THEN Failed(q, cb)
    ELSE IF ~q.ret.value
    THEN [req |-> Finish([q EXCEPT !.investor = "None"],
                         "NotFound(Investor)", None),
          cb |-> cb, cache |-> cache]
    ELSE LET x == execute_with_circuit_breaker(
                      [q EXCEPT !.investor = "row"], cb, now, "create")
         IN [req |-> x.req, cb |-> x.cb, cache |-> cache]

\* variant: only the listings of the fund invested in are invalidated
create_investment_created_own_fund(q, cb) ==
    IF q.ret.exc # "" THEN Failed(q, cb)
    ELSE
    [req |-> Finish(q, "ok", Some(q.ret.value)), cb |-> cb,
     cache |-> TTLCache_invalidate(cache,
                                   {INVESTMENTS \o <<q.fund_id>>}).cache]

create_investment_created(q, cb) ==
    IF q.ret.exc # "" THEN Failed(q, cb)
    ELSE
    [req |-> Finish(q, "ok", Some(q.ret.value)), cb |-> cb,
     cache |-> TTLCache_invalidate(cache, {INVESTMENTS}).cache]

\* variant: the loaded fund goes to the UPDATE without the transition check
update_fund_fund_unvalidated(q, cb) ==
    IF q.ret.exc # "" THEN Failed(q, cb)
    ELSE IF q.ret.value = Absent
    THEN [req |-> Finish(q, "NotFound(Fund)", None), cb |-> cb, cache |-> cache]
    ELSE LET x == execute_with_circuit_breaker(
                      [q EXCEPT !.fund = q.ret.value], cb, now, "update")
         IN [req |-> x.req, cb |-> x.cb, cache |-> cache]

update_fund_fund(q, cb) ==
    IF q.ret.exc # "" THEN Failed(q, cb)
    ELSE IF q.ret.value = Absent
    THEN [req |-> Finish(q, "NotFound(Fund)", None), cb |-> cb, cache |-> cache]
    ELSE IF ~validate_status_transition(q.ret.value, q.status)
    THEN [req |-> Finish([q EXCEPT !.fund = q.ret.value],
                         "BusinessRuleViolation(transition)", None),
          cb |-> cb, cache |-> cache]
    ELSE LET x == execute_with_circuit_breaker(
                      [q EXCEPT !.fund = q.ret.value], cb, now, "update")
         IN [req |-> x.req, cb |-> x.cb, cache |-> cache]

update_fund_updated(q, cb) ==
    IF q.ret.exc # "" THEN Failed(q, cb)
    ELSE
    [req |-> Finish(q, "ok", Some(q.ret.value)), cb |-> cb,
     cache |-> TTLCache_invalidate(cache, {FUNDS}).cache]

\* variant: the cache is asked before the fund is checked
get_investments_by_fund_fund_cache_first(q, cb) ==
    IF q.ret.exc # "" THEN Failed(q, cb)
    ELSE LET g == TTLCache_get(cache,
                      InvestmentsKey(q.fund_id, q.skip, q.limit), now)
         IN IF g.value # None
            THEN [req |-> Finish(q, "ok", g.value), cb |-> cb,
                  cache |-> g.cache]
            ELSE IF q.ret.value = Absent
            THEN [req |-> Finish(q, "NotFound(Fund)", None), cb |-> cb,
                  cache |-> g.cache]
            ELSE [req |-> Await([q EXCEPT !.fund = q.ret.value], "get_by_fund"),
                  cb |-> cb, cache |-> g.cache]

\* get_by_fund is awaited directly, not through the breaker
get_investments_by_fund_fund(q, cb) ==
    IF q.ret.exc # "" THEN Failed(q, cb)
    ELSE IF q.ret.value = Absent
    THEN [req |-> Finish(q, "NotFound(Fund)", None), cb |-> cb, cache |-> cache]
    ELSE LET g == TTLCache_get(cache,
                      InvestmentsKey(q.fund_id, q.skip, q.limit), now)
         IN IF g.value # None
            THEN [req |-> Finish(q, "ok", g.value), cb |-> cb,
                  cache |-> g.cache]
            ELSE [req |-> Await([q EXCEPT !.fund = q.ret.value], "get_by_fund"),
                  cb |-> cb, cache |-> g.cache]

Resume(r, x) ==
    /\ reqs' = [reqs EXCEPT ![r] = x.req]
    /\ breaker' = x.cb
    /\ cache' = x.cache
    /\ UNCHANGED <<retryVars, now, callers, invoked, run, lastSet, setLog, gets,
                   funds, investors,
                   investments, started, lastOp>>

create_investment_after_fund(r) ==
    /\ Resumed(r, "create_investment", "fund_get")
    /\ Resume(r, create_investment_fund(reqs[r], Completed(r)))

create_investment_after_investor(r) ==
    /\ Resumed(r, "create_investment", "investor_get")
    /\ Resume(r, create_investment_investor(reqs[r], Completed(r)))

create_investment_after_create(r) ==
    /\ Resumed(r, "create_investment", "create")
    /\ Resume(r, create_investment_created(reqs[r], Completed(r)))

update_fund_after_fund(r) ==
    /\ Resumed(r, "update_fund", "fund_get")
    /\ Resume(r, update_fund_fund(reqs[r], Completed(r)))

update_fund_after_update(r) ==
    /\ Resumed(r, "update_fund", "update")
    /\ Resume(r, update_fund_updated(reqs[r], Completed(r)))

get_investments_by_fund_after_fund(r) ==
    /\ Resumed(r, "get_investments_by_fund", "fund_get")
    /\ Resume(r, get_investments_by_fund_fund(reqs[r], Completed(r)))

get_investments_by_fund_after_query(r) ==
    /\ Resumed(r, "get_investments_by_fund", "get_by_fund")
    /\ LET q == reqs[r] IN
       IF q.ret.exc # ""
       THEN /\ reqs' = [reqs EXCEPT ![r] = Finish(q, q.ret.exc, None)]
            /\ UNCHANGED cache
       ELSE /\ reqs' = [reqs EXCEPT ![r] = Finish(q, "ok", Some(q.ret.value))]
            /\ cache' = TTLCache_set(cache,
                            InvestmentsKey(q.fund_id, q.skip, q.limit),
                            q.ret.value, now)
    /\ UNCHANGED <<retryVars, now, breakerVars, lastSet, setLog, gets, funds,
                   investors, investments,
                   started, lastOp>>

NextService ==
    \/ \E r \in Reqs : Respond(r)
    \/ \E r \in Reqs, f \in FundIds, i \in InvestorIds, d \in Dates :
         create_investment(r, f, i, d)
    \/ \E r \in Reqs, f \in FundIds, st \in FundStatus : update_fund(r, f, st)
    \/ \E r \in Reqs, f \in FundIds, skip \in {0, 1} :
         get_investments_by_fund(r, f, skip, 100)
    \/ \E r \in Reqs : db_get_fund(r)
    \/ \E r \in Reqs : db_get_investor(r)
    \/ \E r \in Reqs : db_get_by_fund(r)
    \/ \E r \in Reqs : db_create_investment(r)
    \/ \E r \in Reqs : db_update_fund(r)
    \/ \E r \in Reqs : create_investment_after_fund(r)
    \/ \E r \in Reqs : create_investment_after_investor(r)
    \/ \E r \in Reqs : create_investment_after_create(r)
    \/ \E r \in Reqs : update_fund_after_fund(r)
    \/ \E r \in Reqs : update_fund_after_update(r)
    \/ \E r \in Reqs : get_investments_by_fund_after_fund(r)
    \/ \E r \in Reqs : get_investments_by_fund_after_query(r)

SpecService == InitService /\ [][NextService]_vars

\* ---- the investments listing beside the removal of funds
\* DELETE FROM funds WHERE id = f, the statement of BaseRepository.delete, run
\* by operational tooling: investments.fund_id is ON DELETE RESTRICT
db_delete_fund(f) ==
    /\ funds[f] # Absent
    /\ \A i \in 1..Len(investments) : investments[i].fund_id # f
    /\ funds' = [funds EXCEPT ![f] = Absent]
    /\ UNCHANGED <<retryVars, now, breakerVars, cacheVars, investors,
                   investments, reqs, started, lastOp>>

NextListing ==
    \/ \E r \in Reqs : Respond(r)
    \/ \E r \in Reqs, f \in FundIds, i \in InvestorIds, d \in Dates :
         create_investment(r, f, i, d)
    \/ \E r \in Reqs, f \in FundIds, skip \in {0, 1} :
         get_investments_by_fund(r, f, skip, 100)
    \/ \E f \in FundIds : db_delete_fund(f)
    \/ \E r \in Reqs : db_get_fund(r)
    \/ \E r \in Reqs : db_get_investor(r)
    \/ \E r \in Reqs : db_get_by_fund(r)
    \/ \E r \in Reqs : db_create_investment(r)
    \/ \E r \in Reqs : create_investment_after_fund(r)
    \/ \E r \in Reqs : create_investment_after_investor(r)
    \/ \E r \in Reqs : create_investment_after_create(r)
    \/ \E r \in Reqs : get_investments_by_fund_after_fund(r)
    \/ \E r \in Reqs : get_investments_by_fund_after_query(r)

SpecListing == InitService /\ [][NextListing]_vars

\* ------------------------------------------------------------ FundService
FundOrder == <<"f1", "f2">>

FundKey(fund_id) == FUNDS \o <<fund_id>>

\* variant: one key for every pagination window
FundsKey_shared(skip, limit) == FUNDS \o <<"list:">>

FundsKey(skip, limit) ==
    FUNDS \o <<"list:">> \o ToStr(skip) \o <<":">> \o ToStr(limit)

\* the rows of the funds table in primary-key order, each as <<id, status>>
RECURSIVE FundRows(_, _)
FundRows(rows, ids) ==
    IF ids = <<>> THEN <<>>
    ELSE (IF rows[Head(ids)] = Absent THEN <<>>
          ELSE <<<<Head(ids), rows[Head(ids)]>>>>)
         \o FundRows(rows, Tail(ids))

BaseRepository_get_all_funds(rows, skip, limit) ==
    OffsetLimit(FundRows(rows, FundOrder), skip, limit)

\* the primary key the next inserted fund gets
NewFundId(rows) ==
    LET free(i) == rows[FundOrder[i]] = Absent
        first == CHOOSE i \in 1..Len(FundOrder) :
                     free(i) /\ \A j \in 1..(i - 1) : ~free(j)
    IN FundOrder[first]

\* a cache-backed read up to its first await: a hit is returned at once
CachedRead(r, q, key, op) ==
    /\ reqs[r].pc = "idle"
    /\ \A r2 \in Reqs : r2 < r => reqs[r2].pc # "idle"
    /\ started < MaxRequests
    /\ started' = started + 1
    /\ LET g == TTLCache_get(cache, key, now)
           x == execute_with_circuit_breaker(q, breaker, now, op)
       IN /\ cache' = g.cache
          /\ IF g.value # None
             THEN /\ reqs' = [reqs EXCEPT ![r] = Finish(q, "ok", g.value)]
                  /\ UNCHANGED breaker
             ELSE /\ reqs' = [reqs EXCEPT ![r] = x.req]
                  /\ breaker' = x.cb
    /\ UNCHANGED <<retryVars, now, callers, invoked, run, lastSet, setLog, gets,
                   funds, investors, investments, lastOp>>

get_fund(r, f) ==
    CachedRead(r, [IdleReq EXCEPT !.op = "get_fund", !.fund_id = f],
               FundKey(f), "fund_get")

get_all_funds(r, skip, limit) ==
    CachedRead(r, [IdleReq EXCEPT !.op = "get_all_funds", !.skip = skip,
                                  !.limit = limit],
               FundsKey(skip, limit), "get_all")

\* create_fund has no read before the INSERT (the table holds FundIds at most)
create_fund(r, st) ==
    /\ reqs[r].pc = "idle"
    /\ \A r2 \in Reqs : r2 < r => reqs[r2].pc # "idle"
    /\ started < MaxRequests
    /\ Cardinality({f \in FundIds : funds[f] = Absent}) >
         Cardinality({r2 \in Reqs : /\ reqs[r2].op = "create_fund"
                                    /\ reqs[r2].pc = "create"})
    /\ started' = started + 1
    /\ LET q == [IdleReq EXCEPT !.op = "create_fund", !.status = st]
           x == execute_with_circuit_breaker(q, breaker, now, "create")
       IN /\ reqs' = [reqs EXCEPT ![r] = x.req]
          /\ breaker' = x.cb
    /\ UNCHANGED <<retryVars, now, callers, invoked, run, cacheVars, funds,
                   investors, investments, lastOp>>

db_get_all_funds(r) ==
    /\ reqs[r].op = "get_all_funds"
    /\ DbRead(r, "get_all",
              BaseRepository_get_all_funds(funds, reqs[r].skip, reqs[r].limit))

\* INSERT INTO funds: the row, or the error of a CHECK constraint or connection
db_create_fund(r) ==
    /\ reqs[r].op = "create_fund"
    /\ reqs[r].pc = "create"
    /\ reqs[r].at = "call"
    /\ LET q == reqs[r]
           id == NewFundId(funds)
       IN \/ /\ funds' = [funds EXCEPT ![id] = q.status]
             /\ reqs' = [reqs EXCEPT
                           ![r] = Returned([q EXCEPT !.fund_id = id], "",
                                           q.status)]
          \/ /\ \E exc \in WriteErrors :
                  reqs' = [reqs EXCEPT ![r] = Returned(q, exc, "")]
             /\ UNCHANGED funds
    /\ UNCHANGED <<retryVars, now, breakerVars, cacheVars, investors,
                   investments, started, lastOp>>

get_fund_fund(q, cb) ==
    IF q.ret.exc # "" THEN Failed(q, cb)
    ELSE IF q.ret.value = Absent
    THEN [req |-> Finish(q, "NotFound(Fund)", None), cb |-> cb, cache |-> cache]
    ELSE [req |-> Finish(q, "ok", Some(q.ret.value)), cb |-> cb,
          cache |-> TTLCache_set(cache, FundKey(q.fund_id), q.ret.value, now)]

get_all_funds_rows(q, cb) ==
    IF q.ret.exc # "" THEN Failed(q, cb)
    ELSE
    [req |-> Finish(q, "ok", Some(q.ret.value)), cb |-> cb,
     cache |-> TTLCache_set(cache, FundsKey(q.skip, q.limit), q.ret.value, now)]

\* variant: the cache is invalidated whether or not the INSERT succeeded
create_fund_created_always_invalidates(q, cb) ==
    IF q.ret.exc # ""
    THEN [Failed(q, cb) EXCEPT
            !.cache = TTLCache_invalidate(cache, {FUNDS}).cache]
    ELSE
    [req |-> Finish(q, "ok", Some(q.ret.value)), cb |-> cb,
     cache |-> TTLCache_invalidate(cache, {FUNDS}).cache]

create_fund_created(q, cb) ==
    IF q.ret.exc # "" THEN Failed(q, cb)
    ELSE
    [req |-> Finish(q, "ok", Some(q.ret.value)), cb |-> cb,
     cache |-> TTLCache_invalidate(cache, {FUNDS}).cache]

get_fund_after_fund(r) ==
    /\ Resumed(r, "get_fund", "fund_get")
    /\ Resume(r, get_fund_fund(reqs[r], Completed(r)))

get_all_funds_after_query(r) ==
    /\ Resumed(r, "get_all_funds", "get_all")
    /\ Resume(r, get_all_funds_rows(reqs[r], Completed(r)))

create_fund_after_create(r) ==
    /\ Resumed(r, "create_fund", "create")
    /\ Resume(r, create_fund_created(reqs[r], Completed(r)))

NextFunds ==
    \/ \E r \in Reqs : Respond(r)
    \/ \E r \in Reqs, f \in FundIds : get_fund(r, f)
    \/ \E r \in Reqs, skip \in {0, 1} : get_all_funds(r, skip, 100)
    \/ \E r \in Reqs, st \in FundStatus : create_fund(r, st)
    \/ \E r \in Reqs, f \in FundIds, st \in FundStatus : update_fund(r, f, st)
    \/ \E r \in Reqs : db_get_fund(r)
    \/ \E r \in Reqs : db_get_all_funds(r)
    \/ \E r \in Reqs : db_create_fund(r)
    \/ \E r \in Reqs : db_update_fund(r)
    \/ \E r \in Reqs : get_fund_after_fund(r)
    \/ \E r \in Reqs : get_all_funds_after_query(r)
    \/ \E r \in Reqs : create_fund_after_create(r)
    \/ \E r \in Reqs : update_fund_after_fund(r)
    \/ \E r \in Reqs : update_fund_after_update(r)

SpecFunds == InitService /\ [][NextFunds]_vars

\* ------------------------------------------------------- investor service
\* the email of each row the investors table can hold: email is unique, so a
\* row is named by it
EmailOf == [i \in InvestorIds |-> IF i = "i1" THEN "a@x.io" ELSE "b@x.io"]

Emails == {EmailOf[i] : i \in InvestorIds}

IdOf(email) == CHOOSE i \in InvestorIds : EmailOf[i] = email

\* SELECT ... WHERE email = :email, .first(): whether a row was found
InvestorRepository_get_by_email(rows, email) ==
    \E i \in rows : EmailOf[i] = email

\* the breaker after n classified failures in a row at time 0
RECURSIVE FailedTimes(_)
FailedTimes(n) ==
    IF n = 0 THEN CircuitBreaker_init ELSE record_failure(FailedTimes(n - 1), 0)

\* db_circuit_breaker is one object for all repositories: the requests here
\* find it as earlier calls have left it, up to OPEN, and the investors
\* table with the rows earlier requests have persisted
InitInvestor ==
    /\ now = 0
    /\ breaker \in {FailedTimes(n) : n \in 0..FailureThreshold}
    /\ callers = [c \in Callers |-> IdleCaller]
    /\ invoked = 0
    /\ run = 0
    /\ cache = TTLCache_init(TRUE)
    /\ lastSet = NoSets
    /\ setLog = NoLog
    /\ gets = 0
    /\ retry = IdleRetry
    /\ funds = [f \in FundIds |-> Absent]
    /\ investors \in SUBSET InvestorIds
    /\ investments = <<>>
    /\ reqs = [r \in Reqs |-> IdleReq]
    /\ started = 0
    /\ lastOp = [op |-> "init", who |-> 0, result |-> "", retry_after |-> 0]

\* create_investor up to its first await: get_by_email is awaited directly, not
\* through the breaker
create_investor(r, e) ==
    /\ reqs[r].pc = "idle"
    /\ \A r2 \in Reqs : r2 < r => reqs[r2].pc # "idle"
    /\ started < MaxRequests
    /\ started' = started + 1
    /\ reqs' = [reqs EXCEPT ![r] =
                  Await([IdleReq EXCEPT !.op = "create_investor", !.email = e],
                        "email_get")]
    /\ UNCHANGED <<retryVars, now, breakerVars, cacheVars, funds, investors,
                   investments, lastOp>>

\* ORDER BY id OFFSET skip LIMIT limit over the investors table
InvestorOrder == <<"i1", "i2">>

BaseRepository_get_all_investors(rows, skip, limit) ==
    LET there(i) == i \in rows IN
    OffsetLimit(SelectSeq(InvestorOrder, there), skip, limit)

InvestorsKey(skip, limit) ==
    INVESTORS \o <<"list:">> \o ToStr(skip) \o <<":">> \o ToStr(limit)

\* get_all_investors up to its first await: a cache hit is returned at once
get_all_investors(r, skip, limit) ==
    /\ reqs[r].pc = "idle"
    /\ \A r2 \in Reqs : r2 < r => reqs[r2].pc # "idle"
    /\ started < MaxRequests
    /\ started' = started + 1
    /\ LET q == [IdleReq EXCEPT !.op = "get_all_investors", !.skip = skip,
                                !.limit = limit]
           g == TTLCache_get(cache, InvestorsKey(skip, limit), now)
           x == execute_with_circuit_breaker(q, breaker, now, "get_all")
       IN /\ cache' = g.cache
          /\ IF g.value # None
             THEN /\ reqs' = [reqs EXCEPT ![r] = Finish(q, "ok", g.value)]
                  /\ UNCHANGED breaker
             ELSE /\ reqs' = [reqs EXCEPT ![r] = x.req]
                  /\ breaker' = x.cb
    /\ UNCHANGED <<retryVars, now, callers, invoked, run, lastSet, setLog, gets,
                   funds, investors, investments, lastOp>>

db_get_all_investors(r) ==
    /\ reqs[r].op = "get_all_investors"
    /\ DbRead(r, "get_all",
              BaseRepository_get_all_investors(investors, reqs[r].skip,
                                               reqs[r].limit))

get_all_investors_rows(q, cb) ==
    IF q.ret.exc # "" THEN Failed(q, cb)
    ELSE
    [req |-> Finish(q, "ok", Some(q.ret.value)), cb |-> cb,
     cache |-> TTLCache_set(cache, InvestorsKey(q.skip, q.limit),
                            q.ret.value, now)]

get_all_investors_after_query(r) ==
    /\ Resumed(r, "get_all_investors", "get_all")
    /\ Resume(r, get_all_investors_rows(reqs[r], Completed(r)))

db_get_by_email(r) ==
    DbRead(r, "email_get",
           InvestorRepository_get_by_email(investors, reqs[r].email))

\* INSERT INTO investors; the unique index on email is checked by the database
db_create_investor(r) ==
    /\ reqs[r].op = "create_investor"
    /\ reqs[r].pc = "create"
    /\ reqs[r].at = "call"
    /\ LET q == reqs[r] IN
       \/ /\ ~InvestorRepository_get_by_email(investors, q.email)
          /\ investors' = investors \cup {IdOf(q.email)}
          /\ reqs' = [reqs EXCEPT ![r] = Returned(q, "", IdOf(q.email))]
       \/ /\ InvestorRepository_get_by_email(investors, q.email)
          /\ reqs' = [reqs EXCEPT ![r] = Returned(q, "IntegrityError", "")]
          /\ UNCHANGED investors
       \/ /\ \E exc \in DbErrors :
               reqs' = [reqs EXCEPT ![r] = Returned(q, exc, "")]
          /\ UNCHANGED investors
    /\ UNCHANGED <<retryVars, now, breakerVars, cacheVars, funds, investments,
                   started, lastOp>>

\* variant: no pre-check, the unique index alone finds the duplicate
create_investor_email_unchecked(q, cb) ==
    IF q.ret.exc # "" THEN Failed(q, cb)
    ELSE LET x == execute_with_circuit_breaker(
                      [q EXCEPT !.investor = IF q.ret.value THEN "row"
                                             ELSE "None"],
                      cb, now, "create")
         IN [req |-> x.req, cb |-> x.cb, cache |-> cache]

\* the pre-check: an existing row is a Conflict, none leads to the insert
create_investor_email(q, cb) ==
    IF q.ret.exc # "" THEN Failed(q, cb)
    ELSE IF q.ret.value
    THEN [req |-> Finish([q EXCEPT !.investor = "row"], "Conflict", None),
          cb |-> cb, cache |-> cache]
    ELSE LET x == execute_with_circuit_breaker(
                      [q EXCEPT !.investor = "None"], cb, now, "create")
         IN [req |-> x.req, cb |-> x.cb, cache |-> cache]

\* variant: no except IntegrityError around the insert
create_investor_created_uncaught(q, cb) ==
    IF q.ret.exc # ""
    THEN [req |-> Finish(q, q.ret.exc, None), cb |-> cb, cache |-> cache]
    ELSE
    [req |-> Finish(q, "ok", Some(q.ret.value)), cb |-> cb,
     cache |-> TTLCache_invalidate(cache, {INVESTORS}).cache]

create_investor_created(q, cb) ==
    IF q.ret.exc # "" THEN Failed(q, cb)
    ELSE
    [req |-> Finish(q, "ok", Some(q.ret.value)), cb |-> cb,
     cache |-> TTLCache_invalidate(cache, {INVESTORS}).cache]

\* get_by_email did not go through the breaker: nothing is recorded
create_investor_after_email(r) ==
    /\ Resumed(r, "create_investor", "email_get")
    /\ Resume(r, create_investor_email(reqs[r], breaker))

create_investor_after_create(r) ==
    /\ Resumed(r, "create_investor", "create")
    /\ Resume(r, create_investor_created(reqs[r], Completed(r)))

NextInvestor ==
    \/ \E r \in Reqs : Respond(r)
    \/ \E r \in Reqs, e \in Emails : create_investor(r, e)
    \/ \E r \in Reqs : get_all_investors(r, 0, 100)
    \/ \E r \in Reqs : db_get_all_investors(r)
    \/ \E r \in Reqs : get_all_investors_after_query(r)
    \/ \E r \in Reqs : db_get_by_email(r)
    \/ \E r \in Reqs : db_create_investor(r)
    \/ \E r \in Reqs : create_investor_after_email(r)
    \/ \E r \in Reqs : create_investor_after_create(r)

SpecInvestor == InitInvestor /\ [][NextInvestor]_vars

\* ------------------------------------------------------ claims, services
\* C1: under any interleaving of create_investment and update_fund on one
\* fund, no investment is ever written while its fund is persisted as Closed.
C1_NoInvestmentWrittenWhileClosed ==
    \A k \in DOMAIN investments :
        investments[k].fund_status_at_write # FUND_CLOSED

CreateReqs == {r \in Reqs : reqs[r].op = "create_investment"}

\* C2: create_investment whose read of the fund finds it Closed raises
\* BusinessRuleViolation; it never calls the investment repository's create,
\* and it leaves the investments table and the cache store as they were.
C2_ClosedFundRejected ==
    /\ [](\A r \in CreateReqs :
            reqs[r].fund = FUND_CLOSED =>
              /\ reqs[r].pc = "done"
              /\ reqs[r].outcome = "BusinessRuleViolation(closed)"
              /\ reqs[r].issued = {"fund_get"})
    /\ [][\A r \in CreateReqs :
            (/\ reqs[r].pc = "fund_get"
             /\ reqs[r].at = "ret"
             /\ reqs[r].ret.exc = ""
             /\ reqs[r].ret.value = FUND_CLOSED
             /\ reqs'[r] # reqs[r]) =>
              /\ reqs'[r].outcome = "BusinessRuleViolation(closed)"
              /\ reqs'[r].fund = FUND_CLOSED
              /\ investments' = investments
              /\ cache'.store = cache.store]_vars

C2_Witness ==
    \E r \in CreateReqs :
        /\ reqs[r].outcome = "BusinessRuleViolation(closed)"
        /\ reqs[r].investor_id \in investors
        /\ \E k \in StoreKeys(cache.store) : startswith(k, INVESTMENTS)

\* C3: create_investment validates in a fixed order and stops at the first
\* failure: a missing fund gives NotFound(Fund) whatever the investor; a Closed
\* fund gives BusinessRuleViolation with no investor lookup; the investor is
\* looked up only for an existing fund that is not Closed, a missing one giving
\* NotFound(Investor); the insert is attempted only after all three checks.
C3_ValidationOrder ==
    /\ [](\A r \in CreateReqs :
            /\ reqs[r].outcome \in {"NotFound(Fund)",
                                    "BusinessRuleViolation(closed)"} =>
                 reqs[r].issued = {"fund_get"}
            /\ "investor_get" \in reqs[r].issued =>
                 reqs[r].fund \in {FUNDRAISING, INVESTING}
            /\ reqs[r].outcome = "NotFound(Investor)" =>
                 reqs[r].issued = {"fund_get", "investor_get"}
            /\ "create" \in reqs[r].issued =>
                 /\ reqs[r].issued = {"fund_get", "investor_get", "create"}
                 /\ reqs[r].fund \in {FUNDRAISING, INVESTING}
                 /\ reqs[r].investor = "row")
    /\ [][\A r \in CreateReqs :
            (reqs[r].at = "ret" /\ reqs[r].ret.exc = "" /\ reqs'[r] # reqs[r]) =>
              /\ (reqs[r].pc = "fund_get" /\ reqs[r].ret.value = Absent) =>
                   reqs'[r].outcome = "NotFound(Fund)"
              /\ (reqs[r].pc = "investor_get" /\ ~reqs[r].ret.value) =>
                   reqs'[r].outcome = "NotFound(Investor)"]_vars

C3_Witness ==
    /\ \E r \in CreateReqs :
         /\ reqs[r].outcome = "NotFound(Fund)"
         /\ reqs[r].investor_id \in investors
    /\ \E r \in CreateReqs :
         /\ reqs[r].outcome = "NotFound(Investor)"
         /\ reqs[r].issued = {"fund_get", "investor_get"}

\* ------------------------------------------------------ claims, breaker
StateReads == {"call_enter", "state", "get_status"}

Elapsed == now - breaker.last_failure_time

\* C4: starting CLOSED with failure_count 0, the breaker is still CLOSED after
\* fewer than failure_threshold consecutive classified failures and OPEN after
\* exactly failure_threshold of them; a call made while the state resolves to
\* OPEN gets CircuitBreakerError and func is not invoked.
C4_OpensAtThreshold ==
    /\ [](run \in 0..(FailureThreshold - 1) =>
            breaker.state = CLOSED /\ breaker.failure_count = run)
    /\ [][(run = FailureThreshold - 1 /\ run' = FailureThreshold) =>
            breaker'.state = OPEN]_vars
    /\ [][(lastOp'.op = "call_enter" /\ breaker.state = OPEN
             /\ Elapsed < RecoveryTimeout) =>
            /\ lastOp'.result = "CircuitBreakerError"
            /\ invoked' = invoked
            /\ callers' = callers]_vars

C4_Witness ==
    /\ run = FailureThreshold
    /\ breaker.state = OPEN
    /\ lastOp.op = "call_enter"
    /\ lastOp.result = "CircuitBreakerError"

\* C5: in every reachable state, concurrent calls included, state = OPEN
\* implies failure_count >= failure_threshold.
C5_OpenImpliesThreshold ==
    breaker.state = OPEN => breaker.failure_count >= FailureThreshold

C5_Witness ==
    /\ breaker.state = OPEN
    /\ \E c \in Callers : callers[c].pc = "inflight"
    /\ \E c \in Callers : callers[c].pc = "idle"

Probes ==
    {c \in Callers : callers[c].pc = "inflight"
                     /\ callers[c].admitted_in = HALF_OPEN}

\* C6: while HALF_OPEN exactly one call is let through as the probe: of several
\* calls arriving before the probe completes, at most one invokes func.
C6_SingleProbe == Cardinality(Probes) <= 1

\* C7: while the stored state is OPEN a state read returns OPEN as long as
\* now - last_failure_time < recovery_timeout and returns and stores HALF_OPEN
\* from then on; the transition happens only in a state read (call, state,
\* get_status), never by the passage of time alone.
C7_LazyHalfOpen ==
    [][/\ (breaker.state = OPEN /\ lastOp'.op \in StateReads) =>
            IF Elapsed < RecoveryTimeout
            THEN /\ breaker'.state = OPEN
                 /\ lastOp'.result \in {OPEN, "CircuitBreakerError"}
            ELSE /\ breaker'.state = HALF_OPEN
                 /\ lastOp'.result \in {HALF_OPEN, "admitted"}
       /\ (breaker.state = OPEN /\ breaker'.state = HALF_OPEN) =>
            lastOp'.op \in StateReads /\ Elapsed >= RecoveryTimeout
       /\ (now' # now) => breaker' = breaker
      ]_vars

C7_Witness ==
    /\ lastOp.op = "state"
    /\ lastOp.result = HALF_OPEN
    /\ Elapsed = RecoveryTimeout

\* C8: a call admitted in HALF_OPEN that succeeds closes the breaker with
\* failure_count 0 and success_count one higher; one that fails with a
\* classified failure re-opens it with last_failure_time the time of the
\* failure.
C8_ProbeOutcome ==
    [][(lastOp'.op = "call_exit"
          /\ callers[lastOp'.who].pc = "inflight"
          /\ callers[lastOp'.who].admitted_in = HALF_OPEN) =>
         /\ lastOp'.result = "ok" =>
              /\ breaker'.state = CLOSED
              /\ breaker'.failure_count = 0
              /\ breaker'.success_count = breaker.success_count + 1
         /\ lastOp'.result = "expected" =>
              /\ breaker'.state = OPEN
              /\ breaker'.last_failure_time = now
      ]_vars

\* C9: a call whose func raises an exception outside expected_exceptions
\* propagates it and leaves state, failure_count, success_count and
\* last_failure_time as they were.
C9_UnexpectedLeavesBreaker ==
    [][(lastOp'.op = "call_exit" /\ lastOp'.result = "other") =>
         breaker' = breaker]_vars

C9_Witness ==
    /\ lastOp.op = "call_exit"
    /\ lastOp.result = "other"
    /\ breaker.failure_count > 0
    /\ breaker.state = CLOSED

\* C31: once OPEN the breaker leaves OPEN only for HALF_OPEN, in a state read
\* after recovery_timeout: no step, of whatever caller, takes it from OPEN to
\* CLOSED or lowers failure_count while the state is OPEN.
C31_OpenLeavesOnlyByTimeout ==
    [][breaker.state = OPEN =>
         /\ breaker'.state \in {OPEN, HALF_OPEN}
         /\ breaker'.state = HALF_OPEN => Elapsed >= RecoveryTimeout
         /\ breaker'.failure_count >= breaker.failure_count]_vars

\* C32: a call that succeeds while the breaker is CLOSED leaves it CLOSED with
\* failure_count 0; the breaker leaves CLOSED only in the step that records
\* the failure_threshold-th classified failure since the last success, so a
\* series of calls whose runs of classified failures are each shorter than
\* failure_threshold and end with a success stays CLOSED throughout.
C32_SuccessResetsCount ==
    /\ [][(lastOp'.op = "call_exit" /\ lastOp'.result = "ok"
             /\ breaker.state = CLOSED) =>
            /\ breaker'.state = CLOSED
            /\ breaker'.failure_count = 0
            /\ run' = 0]_vars
    /\ [][(breaker.state = CLOSED /\ breaker'.state # CLOSED) =>
            /\ lastOp'.op = "call_exit"
            /\ lastOp'.result = "expected"
            /\ breaker.failure_count = FailureThreshold - 1
            /\ breaker'.state = OPEN
            /\ run \notin 0..(FailureThreshold - 2)]_vars
    /\ [][(run \in 0..(FailureThreshold - 1) /\ lastOp'.op = "call_exit"
             /\ lastOp'.result = "ok") =>
            (breaker.state = CLOSED /\ breaker'.state = CLOSED)]_vars

\* a success, then a run one short of the threshold, one call at a time
C32_Witness ==
    /\ breaker.state = CLOSED
    /\ breaker.success_count >= 1
    /\ run = FailureThreshold - 1
    /\ breaker.failure_count = FailureThreshold - 1
    /\ invoked = FailureThreshold
    /\ \A c \in Callers : c # 1 => callers[c] = IdleCaller
    /\ callers[1].pc = "idle"

\* C37: the retry_after of a CircuitBreakerError is
\* max(0, recovery_timeout - (now - last_failure_time)), which lies in
\* 0..recovery_timeout.
C37_RetryAfter ==
    [][(lastOp'.op = "call_enter"
          /\ lastOp'.result = "CircuitBreakerError") =>
         /\ lastOp'.retry_after =
              Max(0, RecoveryTimeout - (now - breaker.last_failure_time))
         /\ lastOp'.retry_after >= 0
         /\ lastOp'.retry_after <= RecoveryTimeout
         /\ breaker.last_failure_time <= now]_vars

C37_Witness ==
    /\ lastOp.op = "call_enter"
    /\ lastOp.result = "CircuitBreakerError"
    /\ lastOp.retry_after > 0
    /\ lastOp.retry_after < RecoveryTimeout
    /\ lastOp.retry_after = RecoveryTimeout - Elapsed

C10_FreshUntilTTL ==
    [][(lastOp'.op = "get" /\ cache.enabled /\ lastSet[lastOp'.who].live) =>
         IF now - lastSet[lastOp'.who].at <= CacheTTL
         THEN lastOp'.result = Some(lastSet[lastOp'.who].value)
         ELSE lastOp'.result = None
      ]_vars

C10_Witness ==
    /\ lastOp.op = "get"
    /\ cache.enabled
    /\ lastSet[lastOp.who].live
    /\ now - lastSet[lastOp.who].at = CacheTTL
    /\ lastOp.result = Some(lastSet[lastOp.who].value)

\* the keys of the store, oldest first
StoreOrder == [i \in DOMAIN cache.store |-> cache.store[i].key]

\* C11: starting from an empty enabled cache, after N set calls with pairwise
\* distinct keys and nothing else removed, the store holds the last
\* min(N, max_size) keys set, in the order they were set: with N > max_size
\* exactly the N - max_size earliest are evicted; every key kept is returned
\* by get with its value while it has not expired, and no evicted key is.
C11_FifoEviction ==
    (cache.enabled /\ setLog.clean) =>
      LET n == Len(setLog.keys)
          evicted == Max(n - CacheMaxSize, 0)
      IN /\ StoreOrder = SubSeq(setLog.keys, evicted + 1, n)
         /\ \A i \in 1..n :
              LET k == setLog.keys[i] IN
              IF i <= evicted
              THEN TTLCache_get(cache, k, now).value = None
              ELSE (now - lastSet[k].at <= CacheTTL) =>
                     TTLCache_get(cache, k, now).value = Some(lastSet[k].value)

C11_Witness ==
    /\ cache.enabled
    /\ setLog.clean
    /\ Len(setLog.keys) > CacheMaxSize
    /\ lastOp.op = "set"
    /\ \A k \in StoreKeys(cache.store) : now - lastSet[k].at <= CacheTTL

\* C12: whatever sequence of set, get, invalidate and clear is applied to a
\* cache that starts empty, the number of stored entries never exceeds
\* max_size.
C12_SizeBounded == Len(cache.store) <= CacheMaxSize

C12_Witness ==
    /\ lastOp.op = "set"
    /\ Len(cache.store) = CacheMaxSize
    /\ cache.store[CacheMaxSize].key = lastOp.who
    /\ ~setLog.clean
    /\ \E k \in TestKeys \ StoreKeys(cache.store) : TRUE
    /\ gets > 0

\* C13: set on a key already in the store replaces its value and leaves the
\* number of entries, every other entry and the order of the keys as they
\* were, at capacity too.
C13_OverwriteInPlace ==
    [][(lastOp'.op = "set" /\ cache.enabled
          /\ lastOp'.who \in StoreKeys(cache.store)) =>
         /\ Len(cache'.store) = Len(cache.store)
         /\ \A i \in DOMAIN cache.store :
              /\ cache'.store[i].key = cache.store[i].key
              /\ IF cache.store[i].key = lastOp'.who
                 THEN cache'.store[i].entry.value = lastSet'[lastOp'.who].value
                 ELSE cache'.store[i] = cache.store[i]
      ]_vars

C13_Witness ==
    /\ lastOp.op = "set"
    /\ Len(cache.store) = CacheMaxSize
    /\ Len(cache.store) >= 2
    /\ cache.store[1].key = lastOp.who
    /\ cache.store[1].entry.created_at > cache.store[2].entry.created_at

\* the entries still in the store after their ttl has passed
ExpiredKeys ==
    {cache.store[i].key : i \in {j \in DOMAIN cache.store :
                                  now - cache.store[j].entry.created_at
                                    > CacheTTL}}

\* C40: set on a key in the store gives the entry the time of the overwrite
\* as its created_at and leaves it at its place in the order; the passage of
\* time removes nothing; a get removes the entry of its own key when that is
\* expired and nothing else; and an expired entry counts for capacity: set
\* of a new key on a full store evicts the oldest key, expired or not.
C40_ExpiredStaysUntilLookup ==
    /\ [][(lastOp'.op = "set" /\ cache.enabled
             /\ lastOp'.who \in StoreKeys(cache.store)) =>
            LET i == StoreIndex(cache.store, lastOp'.who) IN
            /\ Len(cache'.store) = Len(cache.store)
            /\ cache'.store[i].key = lastOp'.who
            /\ cache'.store[i].entry.created_at = now
            /\ TTLCache_get(cache', lastOp'.who, now + CacheTTL).value # None
            /\ TTLCache_get(cache', lastOp'.who, now + CacheTTL + 1).value
                 = None]_vars
    /\ [][now' # now => cache' = cache]_vars
    /\ [][(lastOp'.op = "get" /\ cache.enabled) =>
            cache'.store =
              IF lastOp'.who \in ExpiredKeys
              THEN StoreDel(cache.store, lastOp'.who)
              ELSE cache.store]_vars
    /\ [][(lastOp'.op = "set" /\ cache.enabled
             /\ lastOp'.who \notin StoreKeys(cache.store)
             /\ Len(cache.store) = CacheMaxSize) =>
            /\ Len(cache'.store) = CacheMaxSize
            /\ \A i \in 1..(CacheMaxSize - 1) :
                  cache'.store[i] = cache.store[i + 1]
            /\ cache'.store[CacheMaxSize].key = lastOp'.who]_vars

\* a get has removed its own expired entry and left another expired one, which
\* an overwrite had not moved
C40_Witness ==
    /\ lastOp.op = "get"
    /\ lastOp.result = None
    /\ lastOp.who \notin StoreKeys(cache.store)
    /\ lastSet[lastOp.who].live
    /\ ExpiredKeys # {}
    /\ Len(cache.store) = CacheMaxSize - 1

\* C14: invalidate(p1, ..., pn) on an enabled cache removes exactly the entries
\* whose key starts with one of the prefixes, returns how many it removed, and
\* leaves every other entry in place, returned by get as before.
C14_InvalidateByPrefix ==
    [][(lastOp'.op = "invalidate" /\ cache.enabled) =>
         LET ps == lastOp'.who
             gone == {k \in StoreKeys(cache.store) :
                        \E p \in ps : startswith(k, p)}
         IN /\ StoreKeys(cache'.store) = StoreKeys(cache.store) \ gone
            /\ lastOp'.result = Cardinality(gone)
            /\ \A k \in StoreKeys(cache.store) \ gone :
                 /\ cache'.store[StoreIndex(cache'.store, k)]
                      = cache.store[StoreIndex(cache.store, k)]
                 /\ TTLCache_get(cache', k, now).value
                      = TTLCache_get(cache, k, now).value
      ]_vars

C14_Witness ==
    /\ lastOp.op = "invalidate"
    /\ cache.enabled
    /\ lastOp.who = {FUNDS}
    /\ lastOp.result >= 1
    /\ Len(cache.store) >= 1

\* C15, as stated: every get call increments exactly one of hits and misses,
\* so hits + misses is the number of get calls made.
C15_EveryGetCounted ==
    /\ [](cache.hits + cache.misses = gets)
    /\ [][lastOp'.op = "get" =>
            \/ cache'.hits = cache.hits + 1 /\ cache'.misses = cache.misses
            \/ cache'.hits = cache.hits /\ cache'.misses = cache.misses + 1
         ]_vars

\* C15, amended: on an enabled cache every get call increments exactly one of
\* hits and misses (a lookup that finds an expired entry counts as a miss), and
\* no other operation changes them, so hits + misses is the number of get
\* calls made.
C15_EveryGetCountedWhenEnabled ==
    /\ [](cache.enabled => cache.hits + cache.misses = gets)
    /\ [][cache.enabled =>
            IF lastOp'.op = "get"
            THEN \/ /\ lastOp'.result # None
                    /\ cache'.hits = cache.hits + 1
                    /\ cache'.misses = cache.misses
                 \/ /\ lastOp'.result = None
                    /\ cache'.hits = cache.hits
                    /\ cache'.misses = cache.misses + 1
            ELSE cache'.hits = cache.hits /\ cache'.misses = cache.misses
         ]_vars

C15_Witness ==
    /\ cache.enabled
    /\ lastOp.op = "get"
    /\ lastOp.result = None
    /\ lastSet[lastOp.who].live
    /\ now - lastSet[lastOp.who].at > CacheTTL
    /\ cache.hits >= 1
    /\ cache.misses >= 1

\* ---------------------------------------------------------- claims, retry
\* every exception raised so far is one retryable_exceptions catches
AllRetryable ==
    \A i \in DOMAIN retry.raised :
        Bases[retry.raised[i]] \cap retry.retryable # {}

\* C16: with max_retries = N, a func whose every attempt raises a retryable
\* failure is invoked exactly N + 1 times, and the wrapper then ends by raising
\* the last failure; with N = 0 it is invoked once.
C16_ExhaustsRetries ==
    /\ retry.calls <= retry.max_retries + 1
    /\ (retry.pc = "done" /\ retry.outcome # "ok" /\ AllRetryable) =>
         /\ retry.calls = retry.max_retries + 1
         /\ Len(retry.raised) = retry.calls
         /\ retry.outcome = retry.raised[Len(retry.raised)]
    /\ (AllRetryable /\ Len(retry.raised) = retry.max_retries + 1) =>
         retry.pc = "done"

C16_Witness ==
    /\ retry.pc = "done"
    /\ retry.max_retries >= 2
    /\ retry.calls = retry.max_retries + 1
    /\ AllRetryable
    /\ retry.outcome = "TimeoutError"
    /\ Len(retry.slept) = retry.max_retries

\* C17: an attempt that raises a failure outside retryable_exceptions ends the
\* wrapper at once with that failure: no sleep and no further attempt follow,
\* whatever retries are left.
C17_NonRetryablePropagates ==
    /\ [][(lastOp'.op = "attempt" /\ lastOp'.result # "ok"
             /\ Bases[lastOp'.result] \cap retry.retryable = {}) =>
            /\ retry'.pc = "done"
            /\ retry'.outcome = lastOp'.result
            /\ retry'.calls = retry.calls + 1
            /\ retry'.slept = retry.slept
            /\ now' = now]_vars
    /\ [][retry.pc = "done" => retry' = retry]_vars

C17_Witness ==
    /\ retry.pc = "done"
    /\ retry.outcome = "TimeoutError"
    /\ retry.retryable = {"ConnectionError"}
    /\ retry.attempt < retry.max_retries
    /\ retry.calls >= 2

RECURSIVE Pow2(_)
Pow2(k) == IF k = 0 THEN 1 ELSE 2 * Pow2(k - 1)

RECURSIVE SumSeq(_)
SumSeq(q) == IF q = <<>> THEN 0 ELSE Head(q) + SumSeq(Tail(q))

\* C35: with jitter disabled the sleep before retry k (k = 0, 1, ...) lasts
\* min(base_delay * 2^k, max_delay), never more than max_delay; there is one
\* sleep between two consecutive attempts and none after the last, so the
\* sleeps number one less than the attempts made and add up to the time spent.
C35_BackoffSchedule ==
    ~retry.jitter =>
      /\ \A k \in 1..Len(retry.slept) :
            /\ retry.slept[k] =
                 Min(retry.base_delay * Pow2(k - 1), retry.max_delay)
            /\ retry.slept[k] <= retry.max_delay
      /\ retry.pc = "sleep" =>
            retry.actual_delay =
              Min(retry.base_delay * Pow2(Len(retry.slept)), retry.max_delay)
      /\ Len(retry.slept) =
            IF retry.pc = "call" THEN retry.calls ELSE retry.calls - 1
      /\ retry.pc = "done" => Len(retry.slept) <= retry.max_retries
      /\ now = SumSeq(retry.slept)

C35_Witness ==
    /\ ~retry.jitter
    /\ retry.pc = "done"
    /\ retry.calls = 4
    /\ retry.slept = <<1, 2, 3>>
    /\ retry.max_delay = 3

\* C36: when func raises retryable failures on its first j <= max_retries
\* attempts and returns on the next, the wrapper ends with that result after
\* exactly j + 1 invocations and j sleeps; the wrapper does not give up while
\* no more than max_retries retryable failures have been raised, and nothing
\* follows the return.
C36_SucceedsAfterRetries ==
    /\ [](/\ (retry.pc = "done" /\ retry.outcome = "ok") =>
               /\ AllRetryable
               /\ Len(retry.raised) <= retry.max_retries
               /\ retry.calls = Len(retry.raised) + 1
               /\ Len(retry.slept) = Len(retry.raised)
          /\ (AllRetryable /\ Len(retry.raised) <= retry.max_retries
                /\ retry.outcome # "ok") =>
               /\ retry.pc \in {"call", "sleep"}
               /\ retry.pc = "call" => Len(retry.slept) = Len(retry.raised))
    /\ [][(lastOp'.op = "attempt" /\ lastOp'.result = "ok") =>
            /\ retry'.pc = "done"
            /\ retry'.outcome = "ok"
            /\ retry'.calls = retry.calls + 1
            /\ retry'.raised = retry.raised]_vars
    /\ [][(retry.pc = "done" /\ retry.outcome = "ok") =>
            retry' = retry]_vars

C36_Witness ==
    /\ retry.pc = "done"
    /\ retry.outcome = "ok"
    /\ retry.max_retries >= 2
    /\ Len(retry.raised) = retry.max_retries
    /\ retry.calls = retry.max_retries + 1

\* ------------------------------------------------ claims, fund lifecycle
Rank(st) ==
    CASE st = FUNDRAISING -> 1 [] st = INVESTING -> 2 [] st = FUND_CLOSED -> 3

\* C18: under any interleaving of update_fund requests on one fund its
\* persisted status never moves backward in Fundraising < Investing < Closed.
C18_StatusNeverMovesBack ==
    [][\A f \in FundIds :
         (funds[f] # Absent /\ funds'[f] # Absent) =>
           Rank(funds'[f]) >= Rank(funds[f])]_vars

UpdateReqs == {r \in Reqs : reqs[r].op = "update_fund"}

Permitted ==
    {<<FUNDRAISING, FUNDRAISING>>, <<FUNDRAISING, INVESTING>>,
     <<FUNDRAISING, FUND_CLOSED>>, <<INVESTING, INVESTING>>,
     <<INVESTING, FUND_CLOSED>>, <<FUND_CLOSED, FUND_CLOSED>>}

Forbidden ==
    {<<INVESTING, FUNDRAISING>>, <<FUND_CLOSED, FUNDRAISING>>,
     <<FUND_CLOSED, INVESTING>>}

\* C19: _validate_status_transition(current, requested) returns for the six
\* pairs Fundraising -> any, Investing -> Investing or Closed, Closed -> Closed
\* and raises BusinessRuleViolation for Investing -> Fundraising,
\* Closed -> Fundraising and Closed -> Investing; update_fund goes on to the
\* UPDATE for the former and ends with the violation for the latter.
C19_TransitionTable ==
    /\ [](\A c \in FundStatus, q \in FundStatus :
            /\ <<c, q>> \in Permitted => validate_status_transition(c, q)
            /\ <<c, q>> \in Forbidden => ~validate_status_transition(c, q))
    /\ [][\A r \in UpdateReqs :
            (/\ reqs[r].pc = "fund_get"
             /\ reqs[r].at = "ret"
             /\ reqs[r].ret.exc = ""
             /\ reqs[r].ret.value # Absent
             /\ reqs'[r] # reqs[r]) =>
              LET pair == <<reqs[r].ret.value, reqs[r].status>> IN
              /\ pair \in Forbidden =>
                   /\ reqs'[r].outcome = "BusinessRuleViolation(transition)"
                   /\ reqs'[r].issued = {"fund_get"}
              /\ pair \in Permitted =>
                   \/ reqs'[r].pc = "update"
                   \/ reqs'[r].outcome = "CircuitBreakerError"]_vars

C19_Witness ==
    /\ \E r \in UpdateReqs :
         /\ reqs[r].outcome = "BusinessRuleViolation(transition)"
         /\ reqs[r].fund = FUND_CLOSED
         /\ reqs[r].status = INVESTING
    /\ \E r \in UpdateReqs :
         /\ reqs[r].outcome = "ok"
         /\ reqs[r].fund = INVESTING
         /\ reqs[r].status = FUND_CLOSED

\* C29: update_fund whose requested status is outside the allowed set for the
\* status of the fund it loaded ends in BusinessRuleViolation, and update_fund
\* for an id with no row ends in NotFound; in both cases the only statement
\* the request ever issues is the SELECT, and the step that raises changes
\* neither the funds table nor the cache.
C29_RejectedBeforeWrite ==
    /\ [](\A r \in UpdateReqs :
            reqs[r].outcome \in {"BusinessRuleViolation(transition)",
                                 "NotFound(Fund)"} =>
              /\ reqs[r].pc = "done"
              /\ reqs[r].issued = {"fund_get"})
    /\ [][\A r \in UpdateReqs :
            (/\ reqs[r].pc = "fund_get"
             /\ reqs[r].at = "ret"
             /\ reqs[r].ret.exc = ""
             /\ reqs'[r] # reqs[r]
             /\ \/ reqs[r].ret.value = Absent
                \/ <<reqs[r].ret.value, reqs[r].status>> \in Forbidden) =>
              /\ reqs'[r].outcome =
                   IF reqs[r].ret.value = Absent THEN "NotFound(Fund)"
                   ELSE "BusinessRuleViolation(transition)"
              /\ reqs'[r].response.status_code =
                   IF reqs[r].ret.value = Absent THEN 404 ELSE 422
              /\ funds' = funds
              /\ cache' = cache]_vars

C29_Witness ==
    /\ \E r \in UpdateReqs :
         /\ reqs[r].outcome = "BusinessRuleViolation(transition)"
         /\ reqs[r].fund = INVESTING
         /\ reqs[r].status = FUNDRAISING
         /\ funds[reqs[r].fund_id] = INVESTING
    /\ \E r \in UpdateReqs :
         /\ reqs[r].outcome = "NotFound(Fund)"
         /\ funds[reqs[r].fund_id] = Absent

\* C30: on a disabled cache get returns nothing for every key, also for one the
\* backing store holds unexpired, set stores nothing, and invalidate returns 0
\* and removes nothing: the cache object, its backing store included, is the
\* same after each of these calls. Stated of the disabled twin of every cache
\* the operations build, and of every step of a cache constructed disabled.
C30_DisabledIsNoOp ==
    /\ [](LET c == [cache EXCEPT !.enabled = FALSE] IN
          /\ \A k \in TestKeys :
                TTLCache_get(c, k, now) = [cache |-> c, value |-> None]
          /\ \A k \in TestKeys, v \in TestValues :
                TTLCache_set(c, k, v, now) = c
          /\ \A ps \in InvalidateArgs :
                TTLCache_invalidate(c, ps) = [cache |-> c, count |-> 0])
    /\ [][~cache.enabled =>
            /\ cache' = cache
            /\ cache.store = <<>>
            /\ lastOp'.op = "get" => lastOp'.result = None
            /\ lastOp'.op = "invalidate" => lastOp'.result = 0]_vars

\* a store that answers a key while enabled, the case the disabled twin is for
C30_Witness ==
    /\ cache.enabled
    /\ Len(cache.store) = CacheMaxSize
    /\ \E k \in StoreKeys(cache.store) :
         /\ TTLCache_get(cache, k, now).value # None
         /\ TTLCache_get([cache EXCEPT !.enabled = FALSE], k, now).value = None
         /\ \E p \in Prefixes : TTLCache_invalidate(cache, {p}).count > 0

ListingReqs == {r \in Reqs : reqs[r].op = "get_investments_by_fund"}

\* C22: get_investments_by_fund whose fund check finds no row ends in
\* NotFound(Fund) and returns no list, also when the cache holds an unexpired
\* entry under that fund's key: the cache is not looked up (no hit or miss is
\* counted), and a list is returned only by a request whose check found the
\* fund.
C22_MissingFundIsNotFound ==
    [][\A r \in Reqs :
         /\ (/\ r \in ListingReqs
             /\ reqs[r].pc = "fund_get"
             /\ reqs[r].at = "ret"
             /\ reqs[r].ret.exc = ""
             /\ reqs[r].ret.value = Absent
             /\ reqs'[r] # reqs[r]) =>
              /\ reqs'[r].pc = "done"
              /\ reqs'[r].outcome = "NotFound(Fund)"
              /\ reqs'[r].result = None
              /\ reqs'[r].response.status_code = 404
              /\ reqs'[r].issued = {"fund_get"}
              /\ cache' = cache
         /\ (/\ reqs'[r].op = "get_investments_by_fund"
             /\ reqs'[r].outcome = "ok"
             /\ reqs[r].pc # "done") =>
              \/ reqs[r].pc = "get_by_fund"
              \/ /\ reqs[r].pc = "fund_get"
                 /\ reqs[r].ret.exc = ""
                 /\ reqs[r].ret.value # Absent]_vars

C22_Witness ==
    \E r \in ListingReqs :
        /\ reqs[r].outcome = "NotFound(Fund)"
        /\ funds[reqs[r].fund_id] = Absent
        /\ TTLCache_get(cache,
                        InvestmentsKey(reqs[r].fund_id, reqs[r].skip,
                                       reqs[r].limit), now).value # None

FundReads == {r \in Reqs : reqs[r].op \in {"get_fund", "get_all_funds"}}

\* the key a read of the funds looks up and stores under
ReadKey(q) ==
    IF q.op = "get_fund" THEN FundKey(q.fund_id)
    ELSE FundsKey(q.skip, q.limit)

\* pagination windows, some with digits that would run together
Windows == {0, 1, 10, 11} \X {0, 1, 10, 100}

\* every window has a key of its own, and none is the key of a fund
KeysDistinct ==
    \A w1 \in Windows, w2 \in Windows :
        /\ FundsKey(w1[1], w1[2]) = FundsKey(w2[1], w2[2]) => w1 = w2
        /\ \A f \in FundIds : FundKey(f) # FundsKey(w1[1], w1[2])

\* C34: get_fund and get_all_funds look in the cache first. On a hit the
\* cached value is returned and no statement is issued; on a miss the
\* repository is called, and what it returns is returned and stored under
\* funds:{id} or funds:list:{skip}:{limit}, a key no other window and no fund
\* id shares; a fund with no row ends in NotFound and nothing is cached.
C34_CacheFirst ==
    /\ []KeysDistinct
    /\ [][\A r \in Reqs :
            (reqs[r].pc = "idle" /\ reqs'[r].pc # "idle"
               /\ reqs'[r].op \in {"get_fund", "get_all_funds"}) =>
              LET g == TTLCache_get(cache, ReadKey(reqs'[r]), now) IN
              /\ cache' = g.cache
              /\ IF g.value # None
                 THEN /\ reqs'[r].pc = "done"
                      /\ reqs'[r].outcome = "ok"
                      /\ reqs'[r].result = g.value
                      /\ reqs'[r].issued = {}
                      /\ breaker' = breaker
                 ELSE \/ /\ reqs'[r].at = "call"
                         /\ reqs'[r].pc =
                              IF reqs'[r].op = "get_fund" THEN "fund_get"
                              ELSE "get_all"
                      \/ reqs'[r].outcome = "CircuitBreakerError"]_vars
    /\ [][\A r \in FundReads :
            (reqs[r].at = "ret" /\ reqs[r].ret.exc = ""
               /\ reqs'[r] # reqs[r]) =>
              IF reqs[r].op = "get_fund" /\ reqs[r].ret.value = Absent
              THEN /\ reqs'[r].outcome = "NotFound(Fund)"
                   /\ reqs'[r].result = None
                   /\ cache' = cache
              ELSE /\ reqs'[r].outcome = "ok"
                   /\ reqs'[r].result = Some(reqs[r].ret.value)
                   /\ cache' = TTLCache_set(cache, ReadKey(reqs[r]),
                                            reqs[r].ret.value, now)
                   /\ TTLCache_get(cache', ReadKey(reqs[r]), now).value
                        = Some(reqs[r].ret.value)]_vars

\* a miss that stored the fund, then a hit that returned it with no statement
C34_Witness ==
    \E r1 \in FundReads, r2 \in FundReads :
        /\ reqs[r1].op = "get_fund"
        /\ reqs[r2].op = "get_fund"
        /\ reqs[r1].fund_id = reqs[r2].fund_id
        /\ reqs[r1].outcome = "ok"
        /\ reqs[r1].issued = {"fund_get"}
        /\ reqs[r2].outcome = "ok"
        /\ reqs[r2].issued = {}
        /\ reqs[r2].result = reqs[r1].result
        /\ cache.hits = 1

\* C23: once every create_fund and update_fund that was started has ended, a
\* get_fund or get_all_funds that starts now returns what the funds table
\* holds: an answer the cache gives equals the persisted fund, or list.
C23_NoStaleRead ==
    (\A r \in Reqs : reqs[r].op \in {"create_fund", "update_fund"} =>
                       reqs[r].pc = "done") =>
      /\ \A f \in FundIds :
           LET g == TTLCache_get(cache, FundKey(f), now) IN
           g.value # None => g.value = Some(funds[f])
      /\ LET g == TTLCache_get(cache, FundsKey(0, 100), now) IN
         g.value # None =>
           g.value = Some(BaseRepository_get_all_funds(funds, 0, 100))

\* ------------------------------------------------- the services side by side
\* the four write operations of the three services and a cached read, served
\* from one table set, one cache and one breaker
NextWrites ==
    \/ \E r \in Reqs : Respond(r)
    \/ \E r \in Reqs, f \in FundIds : get_fund(r, f)
    \/ \E r \in Reqs : create_fund(r, FUNDRAISING)
    \/ \E r \in Reqs, f \in FundIds, st \in FundStatus : update_fund(r, f, st)
    \/ \E r \in Reqs, e \in Emails : create_investor(r, e)
    \/ \E r \in Reqs, f \in FundIds, i \in InvestorIds :
         create_investment(r, f, i, 1)
    \/ \E r \in Reqs : db_get_fund(r)
    \/ \E r \in Reqs : db_get_investor(r)
    \/ \E r \in Reqs : db_get_by_email(r)
    \/ \E r \in Reqs : db_create_fund(r)
    \/ \E r \in Reqs : db_update_fund(r)
    \/ \E r \in Reqs : db_create_investor(r)
    \/ \E r \in Reqs : db_create_investment(r)
    \/ \E r \in Reqs : get_fund_after_fund(r)
    \/ \E r \in Reqs : create_fund_after_create(r)
    \/ \E r \in Reqs : update_fund_after_fund(r)
    \/ \E r \in Reqs : update_fund_after_update(r)
    \/ \E r \in Reqs : create_investor_after_email(r)
    \/ \E r \in Reqs : create_investor_after_create(r)
    \/ \E r \in Reqs : create_investment_after_fund(r)
    \/ \E r \in Reqs : create_investment_after_investor(r)
    \/ \E r \in Reqs : create_investment_after_create(r)

SpecWrites == InitService /\ [][NextWrites]_vars

\* ---- the writes on a cache that earlier reads have filled
\* what get_fund, get_all_investors and get_investments_by_fund cached, the
\* listing for the second fund where there is one
WarmReads(fs) ==
    LET g == IF fs["f2"] = Absent THEN "f1" ELSE "f2" IN
    <<[key |-> FundKey("f1"), value |-> fs["f1"]],
      [key |-> InvestorsKey(0, 100), value |-> <<"i1">>],
      [key |-> InvestmentsKey(g, 0, 100), value |-> <<>>]>>

\* the cache after the reads of rs, in that order, at time 0
RECURSIVE Warm(_)
Warm(rs) ==
    IF rs = <<>> THEN TTLCache_init(TRUE)
    ELSE LET last == rs[Len(rs)] IN
         TTLCache_set(Warm(SubSeq(rs, 1, Len(rs) - 1)), last.key,
                      last.value, 0)

InitInvalidate ==
    /\ now = 0
    /\ breaker = CircuitBreaker_init
    /\ callers = [c \in Callers |-> IdleCaller]
    /\ invoked = 0
    /\ run = 0
    /\ funds \in {[f \in FundIds |-> IF f = "f1" THEN FUNDRAISING ELSE Absent],
                  [f \in FundIds |-> IF f = "f1" THEN INVESTING
                                     ELSE FUNDRAISING]}
    /\ investors = {"i1"}
    /\ investments = <<>>
    /\ \E n \in 0..2 :
         LET q == WarmReads(funds) IN
         cache = Warm(SubSeq(q, n + 1, Len(q)) \o SubSeq(q, 1, n))
    /\ lastSet = NoSets
    /\ setLog = NoLog
    /\ gets = 0
    /\ retry = IdleRetry
    /\ reqs = [r \in Reqs |-> IdleReq]
    /\ started = 0
    /\ lastOp = [op |-> "init", who |-> 0, result |-> "", retry_after |-> 0]

NextInvalidate ==
    \/ \E r \in Reqs : Respond(r)
    \/ \E r \in Reqs : create_fund(r, FUNDRAISING)
    \/ \E r \in Reqs, f \in FundIds, st \in FundStatus : update_fund(r, f, st)
    \/ \E r \in Reqs, e \in Emails : create_investor(r, e)
    \/ \E r \in Reqs, f \in FundIds, i \in InvestorIds :
         create_investment(r, f, i, 1)
    \/ \E r \in Reqs : db_get_fund(r)
    \/ \E r \in Reqs : db_get_investor(r)
    \/ \E r \in Reqs : db_get_by_email(r)
    \/ \E r \in Reqs : db_create_fund(r)
    \/ \E r \in Reqs : db_update_fund(r)
    \/ \E r \in Reqs : db_create_investor(r)
    \/ \E r \in Reqs : db_create_investment(r)
    \/ \E r \in Reqs : create_fund_after_create(r)
    \/ \E r \in Reqs : update_fund_after_fund(r)
    \/ \E r \in Reqs : update_fund_after_update(r)
    \/ \E r \in Reqs : create_investor_after_email(r)
    \/ \E r \in Reqs : create_investor_after_create(r)
    \/ \E r \in Reqs : create_investment_after_fund(r)
    \/ \E r \in Reqs : create_investment_after_investor(r)
    \/ \E r \in Reqs : create_investment_after_create(r)

SpecInvalidate == InitInvalidate /\ [][NextInvalidate]_vars

\* ---- the writes that read a fund, over a cache that holds a copy of it
\* get_fund caches the row it read; an update_fund that commits while that
\* read is in flight leaves the older copy behind, so the cached status is the
\* persisted one or one the fund had on its way there
InitStale ==
    /\ now = 0
    /\ breaker = CircuitBreaker_init
    /\ callers = [c \in Callers |-> IdleCaller]
    /\ invoked = 0
    /\ run = 0
    /\ \E p \in {c \in FundStatus \X FundStatus :
                   c[1] # FUND_CLOSED /\ c[2] \in ALLOWED_TRANSITIONS[c[1]]} :
         /\ funds = [f \in FundIds |-> IF f = "f1" THEN p[2] ELSE Absent]
         /\ cache = Warm(<<[key |-> FundKey("f1"), value |-> p[1]]>>)
    /\ investors = {"i1"}
    /\ investments = <<>>
    /\ lastSet = NoSets
    /\ setLog = NoLog
    /\ gets = 0
    /\ retry = IdleRetry
    /\ reqs = [r \in Reqs |-> IdleReq]
    /\ started = 0
    /\ lastOp = [op |-> "init", who |-> 0, result |-> "", retry_after |-> 0]

NextStale ==
    \/ \E r \in Reqs : Respond(r)
    \/ \E r \in Reqs, f \in FundIds, st \in FundStatus : update_fund(r, f, st)
    \/ \E r \in Reqs, f \in FundIds, i \in InvestorIds :
         create_investment(r, f, i, 1)
    \/ \E r \in Reqs : db_get_fund(r)
    \/ \E r \in Reqs : db_get_investor(r)
    \/ \E r \in Reqs : db_update_fund(r)
    \/ \E r \in Reqs : db_create_investment(r)
    \/ \E r \in Reqs : update_fund_after_fund(r)
    \/ \E r \in Reqs : update_fund_after_update(r)
    \/ \E r \in Reqs : create_investment_after_fund(r)
    \/ \E r \in Reqs : create_investment_after_investor(r)
    \/ \E r \in Reqs : create_investment_after_create(r)

SpecStale == InitStale /\ [][NextStale]_vars

\* ------------------------------------------------------ claims, the writes
WriteOps == {"create_fund", "update_fund", "create_investor",
             "create_investment"}

Rejections ==
    {"NotFound(Fund)", "NotFound(Investor)", "Conflict",
     "BusinessRuleViolation(transition)", "BusinessRuleViolation(closed)",
     "BusinessRuleViolation(constraint)"}

\* C27: a step in which create_fund, update_fund, create_investor or
\* create_investment ends in NotFound, Conflict or BusinessRuleViolation leaves
\* the cache as it was, and a write operation changes the cache store only in
\* the step that returns after its INSERT or UPDATE succeeded.
C27_RejectedWriteKeepsCache ==
    [][\A r \in Reqs :
         (reqs'[r] # reqs[r] /\ reqs'[r].op \in WriteOps) =>
           /\ reqs'[r].outcome \in Rejections => cache' = cache
           /\ cache'.store # cache.store =>
                /\ reqs'[r].outcome = "ok"
                /\ reqs[r].pc \in {"create", "update"}
                /\ reqs[r].at = "ret"
                /\ reqs[r].ret.exc = ""]_vars

C27_Witness ==
    \E r1 \in Reqs, r2 \in Reqs :
        /\ reqs[r1].op = "get_fund"
        /\ reqs[r1].outcome = "ok"
        /\ reqs[r2].op \in {"create_fund", "update_fund"}
        /\ reqs[r2].outcome \in Rejections
        /\ "update" \in reqs[r2].issued \/ "create" \in reqs[r2].issued
        /\ FundKey(reqs[r1].fund_id) \in StoreKeys(cache.store)

\* the prefix a service invalidates after its writes
PrefixOf(op) ==
    CASE op \in {"create_fund", "update_fund"} -> FUNDS
      [] op = "create_investor" -> INVESTORS
      [] op = "create_investment" -> INVESTMENTS

\* C33: the step in which a write operation returns after its INSERT or UPDATE
\* succeeded removes from the cache every key that starts with the prefix of
\* the operation's own entity ('funds:' for create_fund and update_fund,
\* 'investors:' for create_investor, 'investments:' for create_investment,
\* the listings of every fund) and leaves every other entry, its place in the
\* order and the counters as they were.
C33_OwnPrefixOnly ==
    [][\A r \in Reqs :
         (/\ reqs[r].op \in WriteOps
          /\ reqs[r].pc \in {"create", "update"}
          /\ reqs[r].at = "ret"
          /\ reqs[r].ret.exc = ""
          /\ reqs'[r] # reqs[r]) =>
           LET p == PrefixOf(reqs[r].op)
               other(e) == ~startswith(e.key, p)
           IN /\ reqs'[r].outcome = "ok"
              /\ cache'.store = SelectSeq(cache.store, other)
              /\ \A k \in StoreKeys(cache'.store) : ~startswith(k, p)
              /\ \A q \in Prefixes \ {p} :
                    {k \in StoreKeys(cache'.store) : startswith(k, q)} =
                      {k \in StoreKeys(cache.store) : startswith(k, q)}
              /\ cache'.hits = cache.hits
              /\ cache'.misses = cache.misses]_vars

\* create_investment for f1 has removed the cached listing of f2 and left the
\* entry of another prefix (no operation here adds to the cache, which began
\* full)
C33_Witness ==
    /\ funds["f2"] # Absent
    /\ \E r \in Reqs :
         /\ reqs[r].op = "create_investment"
         /\ reqs[r].outcome = "ok"
         /\ reqs[r].fund_id = "f1"
    /\ \A r \in Reqs : reqs[r].outcome = "ok" => reqs[r].op = "create_investment"
    /\ Len(cache.store) = CacheMaxSize - 1
    /\ \A k \in StoreKeys(cache.store) : ~startswith(k, INVESTMENTS)

\* the cached copy of fund f, when there is one
CachedFund(f) == TTLCache_get(cache, FundKey(f), now).value

\* C38: create_investment and update_fund take the fund from the repository
\* and never look in the cache. The statement returns the persisted row
\* whatever funds:{id} holds; when that row is Closed, create_investment ends
\* in BusinessRuleViolation and update_fund accepts only Closed as the
\* requested status, also while the cache holds a copy that is not Closed;
\* and no step of the two operations counts a hit or a miss.
C38_FundReadFromPersistence ==
    /\ [][\A r \in Reqs :
            (reqs[r].pc = "fund_get" /\ reqs[r].at = "call"
               /\ reqs'[r].at = "ret" /\ reqs'[r].ret.exc = "") =>
              reqs'[r].ret.value = funds[reqs[r].fund_id]]_vars
    /\ [][\A r \in Reqs :
            (reqs[r].pc = "fund_get" /\ reqs[r].at = "ret"
               /\ reqs[r].ret.exc = "" /\ reqs[r].ret.value = FUND_CLOSED
               /\ reqs'[r] # reqs[r]) =>
              IF reqs[r].op = "create_investment"
              THEN /\ reqs'[r].pc = "done"
                   /\ reqs'[r].outcome = "BusinessRuleViolation(closed)"
              ELSE IF reqs[r].status = FUND_CLOSED
              THEN \/ reqs'[r].pc = "update" /\ reqs'[r].at = "call"
                   \/ reqs'[r].outcome = "CircuitBreakerError"
              ELSE /\ reqs'[r].pc = "done"
                   /\ reqs'[r].outcome = "BusinessRuleViolation(transition)"]_vars
    /\ [][/\ cache'.hits = cache.hits
          /\ cache'.misses = cache.misses
          /\ \A f \in FundIds :
               CachedFund(f)' # CachedFund(f) => CachedFund(f)' = None]_vars

\* create_investment was refused for a Closed fund and update_fund refused to
\* reopen it, while the cache held an Investing or Fundraising copy of it
C38_Witness ==
    /\ funds["f1"] = FUND_CLOSED
    /\ CachedFund("f1") \in {Some(INVESTING), Some(FUNDRAISING)}
    /\ \E r1 \in Reqs, r2 \in Reqs :
         /\ reqs[r1].op = "create_investment"
         /\ reqs[r1].fund_id = "f1"
         /\ reqs[r1].outcome = "BusinessRuleViolation(closed)"
         /\ reqs[r2].op = "update_fund"
         /\ reqs[r2].fund_id = "f1"
         /\ reqs[r2].status = INVESTING
         /\ reqs[r2].outcome = "BusinessRuleViolation(transition)"

\* C28: an IntegrityError raised by the INSERT or UPDATE of a write operation
\* never leaves the service: create_fund, update_fund and create_investment
\* end in BusinessRuleViolation (422) and create_investor in Conflict (409),
\* each with the session rolled back.
C28_IntegrityErrorTranslated ==
    /\ [](\A r \in Reqs : reqs[r].outcome # "IntegrityError")
    /\ [][\A r \in Reqs :
            (/\ reqs[r].at = "ret"
             /\ reqs[r].ret.exc = "IntegrityError"
             /\ reqs'[r] # reqs[r]) =>
              /\ reqs[r].op \in WriteOps
              /\ reqs'[r].pc = "done"
              /\ reqs'[r].rolled_back
              /\ reqs'[r].outcome =
                   IF reqs[r].op = "create_investor" THEN "Conflict"
                   ELSE "BusinessRuleViolation(constraint)"
              /\ reqs'[r].response.status_code =
                   IF reqs[r].op = "create_investor" THEN 409 ELSE 422]_vars

C28_Witness ==
    \E r1 \in Reqs, r2 \in Reqs :
        /\ reqs[r1].op \in {"create_fund", "update_fund"}
        /\ reqs[r1].rolled_back
        /\ reqs[r1].outcome = "BusinessRuleViolation(constraint)"
        /\ reqs[r2].op \in {"create_investor", "create_investment"}
        /\ reqs[r2].rolled_back
        /\ reqs[r2].outcome \in {"Conflict", "BusinessRuleViolation(constraint)"}

\* ------------------------------------------------------ claims, investors
CreateInvestorReqs == {r \in Reqs : reqs[r].op = "create_investor"}

Ended(r) == reqs[r].pc = "done" /\ reqs[r].outcome \in {"ok", "Conflict"}

\* C20: of two create_investor requests with one email, run one after the other
\* or interleaved, one succeeds and persists the investor and the other ends
\* in Conflict, whether the duplicate is found by the pre-check or by the
\* unique index: an IntegrityError never leaves the service. (An email with
\* a row persisted before both requests is found by both pre-checks.)
C20_DuplicateEmailIsConflict ==
    /\ [](\A r \in CreateInvestorReqs :
            /\ reqs[r].outcome # "IntegrityError"
            /\ Ended(r) =>
                 InvestorRepository_get_by_email(investors, reqs[r].email))
    /\ [](\A r1 \in CreateInvestorReqs, r2 \in CreateInvestorReqs :
            (r1 # r2 /\ reqs[r1].email = reqs[r2].email
               /\ Ended(r1) /\ Ended(r2)) =>
              /\ ~(reqs[r1].outcome = "ok" /\ reqs[r2].outcome = "ok")
              /\ (/\ started = 2
                  /\ "create" \in reqs[r1].issued \cup reqs[r2].issued) =>
                   (reqs[r1].outcome = "ok" \/ reqs[r2].outcome = "ok"))
    /\ [][\A r \in CreateInvestorReqs :
            (reqs[r].at = "ret" /\ reqs'[r] # reqs[r]) =>
              /\ (reqs[r].pc = "email_get" /\ reqs[r].ret.exc = ""
                    /\ reqs[r].ret.value) =>
                   /\ reqs'[r].outcome = "Conflict"
                   /\ reqs'[r].issued = {"email_get"}
              /\ (reqs[r].pc = "create"
                    /\ reqs[r].ret.exc = "IntegrityError") =>
                   reqs'[r].outcome = "Conflict"]_vars

C20_Witness ==
    \E r1 \in CreateInvestorReqs, r2 \in CreateInvestorReqs :
        /\ reqs[r1].email = reqs[r2].email
        /\ reqs[r1].outcome = "ok"
        /\ reqs[r2].outcome = "Conflict"
        /\ "create" \in reqs[r2].issued

\* C21: create_investor for an email that has a persisted investor when the
\* pre-check reads raises Conflict without calling the repository's create,
\* and leaves the investors table and the cache as they were.
C21_PreCheckConflict ==
    [][\A r \in CreateInvestorReqs :
         (/\ reqs[r].pc = "email_get"
          /\ reqs[r].at = "ret"
          /\ reqs[r].ret.exc = ""
          /\ reqs[r].ret.value
          /\ reqs'[r] # reqs[r]) =>
           /\ reqs'[r].pc = "done"
           /\ reqs'[r].outcome = "Conflict"
           /\ reqs'[r].issued = {"email_get"}
           /\ investors' = investors
           /\ cache' = cache
           /\ breaker' = breaker]_vars

C21_Witness ==
    \E r \in CreateInvestorReqs :
        /\ reqs[r].outcome = "Conflict"
        /\ reqs[r].issued = {"email_get"}
        /\ InvestorsKey(0, 100) \in StoreKeys(cache.store)

\* the requests that put a statement to the database in this step
Issuing ==
    {r \in Reqs : /\ reqs'[r].at = "call"
                  /\ (reqs[r].at # "call" \/ reqs[r].pc # reqs'[r].pc)}

\* C24: every database call of a repository goes through the breaker: while it
\* is OPEN and recovery_timeout has not elapsed no operation puts a statement
\* to the database, get_by_email and get_by_fund included.
C24_AllCallsThroughBreaker ==
    [][(breaker.state = OPEN /\ Elapsed < RecoveryTimeout) =>
         Issuing = {}]_vars

\* C25: a repository call that went through the breaker and failed with
\* OperationalError is recorded as a classified failure, so that
\* failure_threshold of them in a row open the breaker.
C25_OperationalErrorCounts ==
    [][\A r \in Reqs :
         (/\ reqs[r].at = "ret"
          /\ reqs[r].pc \in {"create", "get_all"}
          /\ reqs[r].ret.exc = "OperationalError"
          /\ reqs'[r] # reqs[r]) =>
           breaker' = record_failure(breaker, now)]_vars

\* C26: a CircuitBreakerError that leaves a service operation is answered with
\* a 503 that carries a Retry-After header, not with the 500 of the catch-all.
C26_CircuitOpenIs503 ==
    \A r \in Reqs :
        (reqs[r].pc = "done" /\ reqs[r].outcome = "CircuitBreakerError") =>
          /\ reqs[r].response.status_code = 503
          /\ "Retry-After" \in reqs[r].response.headers

====
